---- MODULE Spec2Model ----
(***************************************************************************)
(* Attestation evidence model and verification engine of axiom-core:       *)
(* canonical serializer, session binder, report decoder and verifier,      *)
(* together with the attested execution path that produces evidence.       *)
(*                                                                         *)
(* Data representation.                                                    *)
(*   Bytes   : a sequence of units.  [byte |-> 0..255] is one byte,        *)
(*             [blob |-> B] the bytes of blob B, [zero |-> n] n zero       *)
(*             bytes, [canon |-> c] / [json |-> j] the UTF-8 bytes of a    *)
(*             canonical JSON text.                                        *)
(*   Blob    : [sha |-> bytes] is the 32-byte SHA-256 digest of bytes      *)
(*             (collision-free: a digest is identified with its preimage), *)
(*             [rnd |-> k, n |-> len] the k-th output of randomBytes(len). *)
(*   String  : a sequence of tokens.  [ch |-> c] is the single character   *)
(*             c, [hex |-> B, up |-> b] the hexadecimal spelling of blob B *)
(*             in lower (b = FALSE) or upper case, [lit |-> s] a run of    *)
(*             text that starts with a non-hexadecimal character,          *)
(*             [zeros |-> n] a run of n characters "0".  In every string   *)
(*             the model draws a hex token starts at an even offset.       *)
(*   Optional: <<>> is undefined, <<v>> is the value v.                    *)
(*   Number  : [i |-> n, e11 |-> d] is n + d * 10^-11, [special |-> s] is  *)
(*             one of "-0", "NaN", "Infinity".                             *)
(***************************************************************************)
EXTENDS Integers, Sequences, FiniteSets, TLC

VARIABLES
    pc,         \* position of the caller: "idle" | "returned" | "verified"
    call,       \* arguments of the last call
    out,        \* what the last call handed back
    axiom,      \* the Axiom instance: its config and its executor's enclave bridge
    native,     \* the native enclave runner: "missing" | "down" | "up"
    clock,      \* Date.now()
    drawn,      \* number of sessions created so far
    session,    \* the Session of the last reason() call
    lastVerdict,    \* the verdict on the result of the last reason() call
    manager     \* the SessionManager: its map of sessions

vars == <<pc, call, out, axiom, native, clock, drawn, session, lastVerdict, manager>>
runtimeVars == <<axiom, native, clock, drawn, session, lastVerdict, manager>>

----------------------------------------------------------------------------
(* Generic helpers *)

Undefined == <<>>
Some(v) == <<v>>
IsDefined(o) == o # <<>>

RECURSIVE Concat(_)
Concat(seqs) == IF seqs = <<>> THEN <<>> ELSE Head(seqs) \o Concat(Tail(seqs))

Has(seq, x) == \E i \in 1..Len(seq) : seq[i] = x

----------------------------------------------------------------------------
(* crypto: createHash("sha256"), Buffer hex conversions *)

\* createHash("sha256").update(bytes).digest(): 32 bytes
Sha256(bytes) == <<[blob |-> [sha |-> bytes]]>>

LowerDigits == <<"0","1","2","3","4","5","6","7","8","9","a","b","c","d","e","f">>
UpperDigits == <<"0","1","2","3","4","5","6","7","8","9","A","B","C","D","E","F">>

\* value of one hexadecimal character, -1 when it is none
HexVal(c) ==
    IF \E i \in 1..16 : LowerDigits[i] = c
    THEN (CHOOSE i \in 1..16 : LowerDigits[i] = c) - 1
    ELSE IF \E i \in 1..16 : UpperDigits[i] = c
         THEN (CHOOSE i \in 1..16 : UpperDigits[i] = c) - 1
         ELSE -1

IsHexCh(t) == "ch" \in DOMAIN t /\ HexVal(t.ch) >= 0

\* Buffer.from(str, "hex"): decodes pairs of hexadecimal characters of either
\* case and stops silently at the first pair that is not hexadecimal.
RECURSIVE FromHex(_)
FromHex(str) ==
    IF str = <<>> THEN <<>>
    ELSE LET t == Head(str) IN
         IF "hex" \in DOMAIN t
         THEN <<[blob |-> t.hex]>> \o FromHex(Tail(str))
         ELSE IF "zeros" \in DOMAIN t
         THEN [k \in 1..(t.zeros \div 2) |-> [byte |-> 0]]
              \o (IF t.zeros % 2 = 0 THEN FromHex(Tail(str)) ELSE <<>>)
         ELSE IF Len(str) >= 2 /\ IsHexCh(t) /\ IsHexCh(str[2])
         THEN <<[byte |-> 16 * HexVal(t.ch) + HexVal(str[2].ch)]>>
              \o FromHex(Tail(Tail(str)))
         ELSE <<>>

\* buffer.toString("hex") / digest("hex"): lower-case spelling
RECURSIVE ToHex(_)
ToHex(bytes) ==
    IF bytes = <<>> THEN <<>>
    ELSE LET u == Head(bytes) IN
         (IF "blob" \in DOMAIN u
          THEN <<[hex |-> u.blob, up |-> FALSE]>>
          ELSE IF "zero" \in DOMAIN u
          THEN <<[zeros |-> 2 * u.zero]>>
          ELSE <<[ch |-> LowerDigits[(u.byte \div 16) + 1]],
                 [ch |-> LowerDigits[(u.byte % 16) + 1]]>>)
         \o ToHex(Tail(bytes))

\* String.prototype.toUpperCase on a hexadecimal string
ToUpper(str) ==
    [k \in 1..Len(str) |->
        IF "hex" \in DOMAIN str[k] THEN [hex |-> str[k].hex, up |-> TRUE]
        ELSE IF IsHexCh(str[k]) THEN [ch |-> UpperDigits[HexVal(str[k].ch) + 1]]
        ELSE str[k]]

ByteLen(u) ==
    IF "blob" \in DOMAIN u
    THEN (IF "sha" \in DOMAIN u.blob THEN 32 ELSE u.blob.n)
    ELSE IF "zero" \in DOMAIN u THEN u.zero
    ELSE 1

RECURSIVE BytesLen(_)
BytesLen(bytes) == IF bytes = <<>> THEN 0 ELSE ByteLen(Head(bytes)) + BytesLen(Tail(bytes))

\* bytes.slice(0, n), for a cut that falls between two units
RECURSIVE TakeBytes(_, _)
TakeBytes(bytes, n) ==
    IF bytes = <<>> \/ ByteLen(Head(bytes)) > n THEN <<>>
    ELSE <<Head(bytes)>> \o TakeBytes(Tail(bytes), n - ByteLen(Head(bytes)))

\* BigInt(n) of a number that is not an integer throws a RangeError;
\* buf.writeBigUInt64BE(v) throws ERR_OUT_OF_RANGE for v < 0.
\* Numbers are [ms |-> integer part, half |-> TRUE when .5 is added].
U64Throws(t) == t.half \/ t.ms < 0

\* the 8 big-endian bytes of an integer in 0 .. 2^31 - 1
U64BE(t) ==
    <<[byte |-> 0], [byte |-> 0], [byte |-> 0], [byte |-> 0],
      [byte |-> (t.ms \div 16777216) % 256], [byte |-> (t.ms \div 65536) % 256],
      [byte |-> (t.ms \div 256) % 256], [byte |-> t.ms % 256]>>

IntMs(n) == [ms |-> n, half |-> FALSE]
HalfMs(n) == [ms |-> n, half |-> TRUE]

----------------------------------------------------------------------------
(* core/canonical.ts *)

\* The strings of a context the model draws, in localeCompare order
\* (lower case before upper case) and in UTF-16 code unit order (the order of
\* Array.prototype.sort() without a comparator).
LocaleOrder ==
    <<"", "10", "9", "Actor", "col1\tcol2\nrow2", "ENTITY_0000", "ENTITY_0001",
      "ENTITY_0002", "ENTITY_\\u00e9", "gpt-4",
      "organization", "organization ", "paid", "summarize payment",
      "tampered", "test", "transform", "type", "value", "Value">>
CodeUnitOrder ==
    <<"", "10", "9", "Actor", "ENTITY_0000", "ENTITY_0001", "ENTITY_0002",
      "ENTITY_e\\u0301", "ENTITY_\\u00e9", "Value",
      "col1\tcol2\nrow2", "gpt-4", "organization", "organization ", "paid",
      "summarize payment", "tampered", "test", "transform", "type", "value">>

\* Unicode normalization form C.  "ENTITY_\\u00e9" stands for the string that
\* ends in the single code point U+00E9 and "ENTITY_e\\u0301" for the one that
\* ends in e followed by U+0301: two different strings that are canonically
\* equivalent.
Nfc(a) == IF a = "ENTITY_e\\u0301" THEN "ENTITY_\\u00e9" ELSE a

NStrings == Len(LocaleOrder) + 1
\* localeCompare returns 0 for canonically equivalent strings
LocaleRank(a) == CHOOSE i \in 1..Len(LocaleOrder) : LocaleOrder[i] = Nfc(a)
CodeUnitRank(a) == CHOOSE i \in 1..Len(CodeUnitOrder) : CodeUnitOrder[i] = a

\* Array.prototype.sort is stable: each element is inserted after the last
\* element whose key is not greater.  keys[j] is the sort key of seq[j].
RECURSIVE InsertSorted(_, _)
InsertSorted(x, sorted) ==
    IF sorted = <<>> THEN <<x>>
    ELSE IF x.key < Head(sorted).key THEN <<x>> \o sorted
    ELSE <<Head(sorted)>> \o InsertSorted(x, Tail(sorted))

RECURSIVE SortKeyed(_)
SortKeyed(keyed) ==
    IF keyed = <<>> THEN <<>>
    ELSE InsertSorted(keyed[Len(keyed)], SortKeyed(SubSeq(keyed, 1, Len(keyed) - 1)))

StableSort(seq, keys) ==
    LET sorted == SortKeyed([j \in 1..Len(seq) |-> [key |-> keys[j], val |-> seq[j]]])
    IN  [j \in 1..Len(seq) |-> sorted[j].val]

\* normalizeNumber: -0 becomes 0, non-finite values pass through, finite
\* values become Math.round(v * 1e10) / 1e10 (Math.round rounds half up).
normalizeNumber(v) ==
    IF "special" \in DOMAIN v
    THEN (IF v.special = "-0" THEN [i |-> 0, e11 |-> 0] ELSE v)
    ELSE [i |-> v.i, e11 |-> 10 * ((v.e11 + 5) \div 10)]

\* normalizeAttributes: keys sorted, numbers normalized.  Attributes are a
\* sequence of [k, v] in insertion order; v is [s |-> string], [n |-> Number]
\* or [null |-> TRUE].
AttrKey(a) == CodeUnitRank(a.k)
normalizeAttributes(attributes) ==
    LET sorted == StableSort(attributes, [j \in 1..Len(attributes) |-> AttrKey(attributes[j])]) IN
    [j \in 1..Len(sorted) |->
        [k |-> sorted[j].k,
         v |-> IF "n" \in DOMAIN sorted[j].v
               THEN [n |-> normalizeNumber(sorted[j].v.n)]
               ELSE sorted[j].v]]

EntityKey(e) == LocaleRank(e.syntheticId)
normalizeEntities(entities) ==
    LET sorted == StableSort(entities, [j \in 1..Len(entities) |-> EntityKey(entities[j])]) IN
    [j \in 1..Len(sorted) |->
        [attributes |-> normalizeAttributes(sorted[j].attributes),
         role |-> sorted[j].role,
         syntheticId |-> sorted[j].syntheticId]]

\* comparison by from, then to, then type
RelationKey(r) ==
    (LocaleRank(r.from) * NStrings + LocaleRank(r.to)) * NStrings + LocaleRank(r.type)
normalizeRelations(relations) ==
    LET sorted == StableSort(relations, [j \in 1..Len(relations) |-> RelationKey(relations[j])]) IN
    [j \in 1..Len(sorted) |->
        [from |-> sorted[j].from, to |-> sorted[j].to, type |-> sorted[j].type]]

\* normalizeTransformedContext: model ?? null (<<>> stands for null as well)
normalizeTransformedContext(context) ==
    [entities |-> normalizeEntities(context.entities),
     model |-> context.model,
     relations |-> normalizeRelations(context.relations),
     task |-> context.task]

\* JSON.stringify writing every character of a string as it is
JsonQuote_Raw(str) == str

\* The characters JSON.stringify writes for a string: control characters
\* are escaped (a tab as backslash t, a line feed as backslash n), every
\* other character of the strings drawn is written as it is.
JsonQuote(str) == IF str = "col1\tcol2\nrow2" THEN "col1\\tcol2\\nrow2" ELSE str
JsonUnquote(lit) == IF lit = "col1\\tcol2\\nrow2" THEN "col1\tcol2\nrow2" ELSE lit

\* JSON.stringify of a value: NaN and the infinities are written as null.
JsonValue(v) ==
    IF "n" \in DOMAIN v /\ "special" \in DOMAIN v.n THEN [null |-> TRUE]
    ELSE IF "s" \in DOMAIN v THEN [s |-> JsonQuote(v.s)]
    ELSE v

\* the value of a property key that is an array index, -1 for another key
IndexValue(k) == IF k = "9" THEN 9 ELSE IF k = "10" THEN 10 ELSE -1

\* the order in which the properties of an object are enumerated: array
\* index keys in ascending numeric order, then the other keys in the order
\* they were inserted
IsIndexKey(prop) == IndexValue(prop.k) >= 0
IsNameKey(prop) == IndexValue(prop.k) < 0
OwnProperties(props) ==
    LET indexed == SelectSeq(props, IsIndexKey)
        keys == [j \in 1..Len(indexed) |-> IndexValue(indexed[j].k)]
    IN  StableSort(indexed, keys) \o SelectSeq(props, IsNameKey)

\* JSON.stringify(normalized, stableStringify): the canonical JSON text,
\* represented by the tree it spells: the members of every object in the
\* order they are written, every string as the characters written for it,
\* no whitespace between tokens.
JsonStringify(normalized) ==
    [entities |->
        [j \in 1..Len(normalized.entities) |->
            [attributes |->
                [a \in 1..Len(normalized.entities[j].attributes) |->
                    [k |-> JsonQuote(OwnProperties(normalized.entities[j].attributes)[a].k),
                     v |-> JsonValue(OwnProperties(normalized.entities[j].attributes)[a].v)]],
             role |-> JsonQuote(normalized.entities[j].role),
             syntheticId |-> JsonQuote(normalized.entities[j].syntheticId)]],
     model |-> [j \in 1..Len(normalized.model) |-> JsonQuote(normalized.model[j])],
     relations |->
        [j \in 1..Len(normalized.relations) |->
            [from |-> JsonQuote(normalized.relations[j].from),
             to |-> JsonQuote(normalized.relations[j].to),
             type |-> JsonQuote(normalized.relations[j].type)]],
     task |-> JsonQuote(normalized.task)]

canonicalize(context) == JsonStringify(normalizeTransformedContext(context))

\* hash: hex(SHA-256(utf8(canonicalize(context))))
hashContext(context) == ToHex(Sha256(<<[canon |-> canonicalize(context)]>>))

verifyEquivalence(context1, context2) == hashContext(context1) = hashContext(context2)

\* JSON.parse of a canonical JSON text
JsonParse(text) ==
    [entities |->
        [j \in 1..Len(text.entities) |->
            [attributes |->
                [a \in 1..Len(text.entities[j].attributes) |->
                    [k |-> JsonUnquote(text.entities[j].attributes[a].k),
                     v |-> IF "s" \in DOMAIN text.entities[j].attributes[a].v
                           THEN [s |-> JsonUnquote(text.entities[j].attributes[a].v.s)]
                           ELSE text.entities[j].attributes[a].v]],
             role |-> JsonUnquote(text.entities[j].role),
             syntheticId |-> JsonUnquote(text.entities[j].syntheticId)]],
     relations |->
        [j \in 1..Len(text.relations) |->
            [from |-> JsonUnquote(text.relations[j].from),
             to |-> JsonUnquote(text.relations[j].to),
             type |-> JsonUnquote(text.relations[j].type)]],
     task |-> JsonUnquote(text.task),
     model |-> [j \in 1..Len(text.model) |-> JsonUnquote(text.model[j])]]


----------------------------------------------------------------------------
(* attestation/parser.ts: the report decoder.                              *)
(* A report is the record of the regions of the buffer the parser reads:   *)
(*   len   the byte length of the buffer,                                  *)
(*   head  the text of bytes 0..3 ("FAKE", or another marker; "" when the  *)
(*         buffer is shorter than 4 bytes),                                *)
(*   d8    bytes 8..39,   meas  bytes 48..95,   d640  bytes 640..703,      *)
(*   sig   bytes 704..767.                                                 *)
(* The parsed fields no check reads (version, guestPolicy, hostData,       *)
(* platformVersion, certificates) are left out.                            *)

ReportSize == 1184

Zeros(n) == <<[zero |-> n]>>

SimulatorMeasurement == <<[lit |-> "simulator_measurement_"], [zeros |-> 42]>>

Thrown(msg) == [ok |-> FALSE, error |-> msg]
Returned(v) == [ok |-> TRUE, value |-> v]
\* parseSimulatorReport without its length check
parseSimulatorReport_NoLengthCheck(report) ==
    Returned([layout |-> "simulator",
              measurement |-> SimulatorMeasurement,
              reportData |-> report.d8,
              signature |-> Zeros(64)])



parseSimulatorReport(report) ==
    IF report.len < ReportSize
    THEN Thrown("Invalid simulator report: too small")
    ELSE Returned([layout |-> "simulator",
                   measurement |-> SimulatorMeasurement,
                   reportData |-> report.d8,
                   signature |-> Zeros(64)])

parseRealSEVSNPReport(report) ==
    IF report.len < ReportSize
    THEN Thrown("Invalid SEV-SNP report: incorrect size")
    ELSE Returned([layout |-> "sev-snp",
                   measurement |-> ToHex(report.meas),
                   reportData |-> report.d640,
                   signature |-> report.sig])

parseAttestationReport(report) ==
    IF report.head = "FAKE"
    THEN parseSimulatorReport(report)
    ELSE parseRealSEVSNPReport(report)

extractReportData(report) ==
    LET parsed == parseAttestationReport(report) IN
    IF parsed.ok THEN Returned(parsed.value.reportData) ELSE parsed

extractMeasurement(report) ==
    LET parsed == parseAttestationReport(report) IN
    IF parsed.ok THEN Returned(parsed.value.measurement) ELSE parsed

validateReportStructure(report) == parseAttestationReport(report).ok

isSimulatorReport(report) ==
    IF report.len < 4 THEN FALSE ELSE report.head = "FAKE"


----------------------------------------------------------------------------
(* attestation/verifier.ts *)

DefaultMaxAge == 300000

\* JavaScript truthiness of an optional string: undefined and "" are falsy
Truthy(opt) == IsDefined(opt) /\ opt[1] # <<>>

Err(msg, detail) == [msg |-> msg, detail |-> detail]
\* verifyPlatformSignature that also wants a signature with a non-zero byte
verifyPlatformSignature_NonZeroSignature(report) ==
    IF isSimulatorReport(report)
    THEN [valid |-> FALSE, error |-> "Simulator report (no real signature chain)"]
    ELSE LET parsed == parseAttestationReport(report) IN
         IF ~parsed.ok THEN [valid |-> FALSE, error |-> parsed.error]
         ELSE IF parsed.value.signature = Zeros(64)
         THEN [valid |-> FALSE, error |-> "Missing signature"]
         ELSE [valid |-> TRUE, error |-> ""]



verifyPlatformSignature(report) ==
    IF isSimulatorReport(report)
    THEN [valid |-> FALSE, error |-> "Simulator report (no real signature chain)"]
    ELSE LET parsed == parseAttestationReport(report) IN
         IF ~parsed.ok THEN [valid |-> FALSE, error |-> parsed.error]
         ELSE IF BytesLen(parsed.value.signature) = 0
         THEN [valid |-> FALSE, error |-> "Missing signature"]
         ELSE [valid |-> TRUE, error |-> ""]

\* SHA-256(sessionId || configHash || outputHash || timestamp), the fields
\* decoded with Buffer.from(_, "hex")
bindingDigest(sessionId, configHash, outputHash, timestamp) ==
    Sha256(FromHex(sessionId) \o FromHex(configHash) \o FromHex(outputHash)
           \o U64BE(timestamp))

\* the body of the try block of verifyOutputBinding
outputBindingTry(evidence, transformedContext) ==
    LET actualOutputHash == hashContext(transformedContext)
        reportData == extractReportData(evidence.report)
    IN
    IF actualOutputHash # evidence.outputHash
    THEN [threw |-> FALSE, valid |-> FALSE, error |-> "Output hash mismatch"]
    ELSE IF ~reportData.ok
    THEN [threw |-> TRUE, valid |-> FALSE, error |-> reportData.error]
    ELSE IF U64Throws(evidence.timestamp)
    THEN [threw |-> TRUE, valid |-> FALSE, error |-> "RangeError"]
    ELSE IF bindingDigest(evidence.sessionId, evidence.configHash,
                          evidence.outputHash, evidence.timestamp)
            # TakeBytes(reportData.value, 32)
    THEN [threw |-> FALSE, valid |-> FALSE,
          error |-> "Report data does not match expected binding"]
    ELSE [threw |-> FALSE, valid |-> TRUE, error |-> ""]

\* verifyOutputBinding without step 2, the comparison of the recomputed output
\* hash with evidence.outputHash
verifyOutputBinding_NoHashCheck(evidence, transformedContext) ==
    LET reportData == extractReportData(evidence.report) IN
    IF ~reportData.ok \/ U64Throws(evidence.timestamp)
    THEN [threw |-> FALSE, valid |-> FALSE, error |-> "exception"]
    ELSE IF bindingDigest(evidence.sessionId, evidence.configHash,
                          evidence.outputHash, evidence.timestamp)
            # TakeBytes(reportData.value, 32)
    THEN [threw |-> FALSE, valid |-> FALSE,
          error |-> "Report data does not match expected binding"]
    ELSE [threw |-> FALSE, valid |-> TRUE, error |-> ""]

\* verifyOutputBinding without its try/catch
verifyOutputBinding_NoCatch(evidence, transformedContext) ==
    outputBindingTry(evidence, transformedContext)

\* verifyOutputBinding: the catch clause turns an exception into a result
verifyOutputBinding(evidence, transformedContext) ==
    LET r == outputBindingTry(evidence, transformedContext) IN
    IF r.threw THEN [threw |-> FALSE, valid |-> FALSE, error |-> r.error] ELSE r

AllClaims(claims) ==
    /\ claims.codeIdentity /\ claims.platformAuth /\ claims.sessionBinding
    /\ claims.freshness /\ claims.reportStructure /\ claims.configBinding

\* a verdict that looks at the errors only
overallValid_ErrorsOnly(claims, errors) == errors = <<>>

\* the overall verdict
overallValid(claims, errors) == AllClaims(claims) /\ errors = <<>>

ThrownVerdict == [threw |-> TRUE]

\* Each check of verify yields its claim and the entries it pushes.
Check(claim, errors, warnings) ==
    [claim |-> claim, errors |-> errors, warnings |-> warnings]

\* 1. report structure: parse inside try/catch
checkReportStructure(evidence) ==
    LET parsed == parseAttestationReport(evidence.report) IN
    IF parsed.ok THEN Check(TRUE, <<>>, <<>>)
    ELSE Check(FALSE, <<Err("Report structure invalid", parsed.error)>>, <<>>)

\* code identity with the permissive branch taken before the comparison
checkCodeIdentity_PermissiveFirst(evidence, options, mode) ==
    IF mode # "strict"
    THEN Check(TRUE, <<>>, <<"Code identity not verified (no expected measurement)">>)
    ELSE IF Truthy(options.expectedMeasurement)
              /\ evidence.measurement = options.expectedMeasurement[1]
         THEN Check(TRUE, <<>>, <<>>)
         ELSE Check(FALSE, <<Err("Measurement mismatch", "")>>, <<>>)

\* code identity with a mismatch that pushes no error
checkCodeIdentity_SilentMismatch(evidence, options, mode) ==
    IF Truthy(options.expectedMeasurement)
    THEN Check(evidence.measurement = options.expectedMeasurement[1], <<>>, <<>>)
    ELSE IF mode = "strict"
         THEN Check(FALSE,
                    <<Err("Expected measurement not provided for verification", "")>>,
                    <<>>)
         ELSE Check(TRUE, <<>>,
                    <<"Code identity not verified (no expected measurement)">>)

\* 2. code identity
checkCodeIdentity(evidence, options, mode) ==
    IF Truthy(options.expectedMeasurement)
    THEN IF evidence.measurement = options.expectedMeasurement[1]
         THEN Check(TRUE, <<>>, <<>>)
         ELSE Check(FALSE, <<Err("Measurement mismatch", "")>>, <<>>)
    ELSE IF mode = "strict"
         THEN Check(FALSE,
                    <<Err("Expected measurement not provided for verification", "")>>,
                    <<>>)
         ELSE Check(TRUE, <<>>,
                    <<"Code identity not verified (no expected measurement)">>)

\* checkPlatformAuth that accepts a signature in strict mode only
checkPlatformAuth_StrictOnly(evidence, options, mode) ==
    IF options.validateSignatureChain # Some(FALSE)
    THEN LET platformAuthResult == verifyPlatformSignature(evidence.report) IN
         IF platformAuthResult.valid THEN Check(mode = "strict", <<>>, <<>>)
         ELSE IF isSimulatorReport(evidence.report)
         THEN Check(mode = "permissive", <<>>,
                    <<"Simulator report detected - no real platform authentication">>)
         ELSE Check(FALSE,
                    <<Err("Platform authentication failed", platformAuthResult.error)>>,
                    <<>>)
    ELSE Check(TRUE, <<>>, <<>>)


\* 3. platform authentication
checkPlatformAuth(evidence, options, mode) ==
    IF options.validateSignatureChain # Some(FALSE)
    THEN LET platformAuthResult == verifyPlatformSignature(evidence.report) IN
         IF platformAuthResult.valid THEN Check(TRUE, <<>>, <<>>)
         ELSE IF isSimulatorReport(evidence.report)
         THEN Check(mode = "permissive", <<>>,
                    <<"Simulator report detected - no real platform authentication">>)
         ELSE Check(FALSE,
                    <<Err("Platform authentication failed", platformAuthResult.error)>>,
                    <<>>)
    ELSE Check(TRUE, <<>>, <<>>)

\* 4. output binding
checkSessionBinding(bindingResult) ==
    IF bindingResult.valid THEN Check(TRUE, <<>>, <<>>)
    ELSE Check(FALSE,
               <<Err("Output binding verification failed", bindingResult.error)>>,
               <<>>)

\* config binding that passes whatever the expected hash
checkConfigBinding_AlwaysPass(evidence, options) == Check(TRUE, <<>>, <<>>)

\* 5. config binding
checkConfigBinding(evidence, options) ==
    IF Truthy(options.expectedConfigHash)
    THEN IF evidence.configHash = options.expectedConfigHash[1]
         THEN Check(TRUE, <<>>, <<>>)
         ELSE Check(FALSE, <<Err("Config hash mismatch", "")>>, <<>>)
    ELSE Check(TRUE, <<>>, <<>>)

\* freshness with age < maxAge in place of age <= maxAge
checkFreshness_ExclusiveBound(evidence, options, now) ==
    LET maxAge == IF IsDefined(options.maxAge) THEN options.maxAge[1] ELSE DefaultMaxAge
        age2 == 2 * (now - evidence.timestamp.ms)
                - (IF evidence.timestamp.half THEN 1 ELSE 0)
    IN  IF age2 < 2 * maxAge /\ age2 >= 0 THEN Check(TRUE, <<>>, <<>>)
        ELSE IF age2 < 0
        THEN Check(FALSE, <<Err("Attestation timestamp is in the future", "")>>, <<>>)
        ELSE Check(FALSE, <<Err("Attestation too old", "")>>, <<>>)

\* checkFreshness that reports a stale timestamp as a config mismatch
checkFreshness_WrongError(evidence, options, now) ==
    LET maxAge == IF IsDefined(options.maxAge) THEN options.maxAge[1] ELSE DefaultMaxAge
        age2 == 2 * (now - evidence.timestamp.ms)
                - (IF evidence.timestamp.half THEN 1 ELSE 0)
    IN  IF age2 <= 2 * maxAge /\ age2 >= 0 THEN Check(TRUE, <<>>, <<>>)
        ELSE Check(FALSE, <<Err("Config hash mismatch", "")>>, <<>>)


\* 6. freshness: age = now - timestamp, compared in half milliseconds
checkFreshness(evidence, options, now) ==
    LET maxAge == IF IsDefined(options.maxAge) THEN options.maxAge[1] ELSE DefaultMaxAge
        age2 == 2 * (now - evidence.timestamp.ms)
                - (IF evidence.timestamp.half THEN 1 ELSE 0)
    IN  IF age2 <= 2 * maxAge /\ age2 >= 0 THEN Check(TRUE, <<>>, <<>>)
        ELSE IF age2 < 0
        THEN Check(FALSE, <<Err("Attestation timestamp is in the future", "")>>, <<>>)
        ELSE Check(FALSE, <<Err("Attestation too old", "")>>, <<>>)

\* 7. nonce: a placeholder
checkNonce(options) ==
    IF Truthy(options.nonce)
    THEN Check(TRUE, <<>>, <<"Nonce verification not yet implemented">>)
    ELSE Check(TRUE, <<>>, <<>>)

\* verify returning at the first failed check: a report that does not parse
\* ends the verification with that one error and every other claim FALSE
verify_ShortCircuit(evidence, transformedContext, options, now) ==
    LET mode == IF IsDefined(options.mode) THEN options.mode[1] ELSE "strict"
        bindingResult == verifyOutputBinding(evidence, transformedContext)
        c1 == checkReportStructure(evidence)
        skipped == Check(FALSE, <<>>, <<>>)
        c2 == IF c1.claim THEN checkCodeIdentity(evidence, options, mode) ELSE skipped
        c3 == IF c1.claim THEN checkPlatformAuth(evidence, options, mode) ELSE skipped
        c4 == IF c1.claim THEN checkSessionBinding(bindingResult) ELSE skipped
        c5 == IF c1.claim THEN checkConfigBinding(evidence, options) ELSE skipped
        c6 == IF c1.claim THEN checkFreshness(evidence, options, now) ELSE skipped
        c7 == IF c1.claim THEN checkNonce(options) ELSE skipped
        claims == [codeIdentity |-> c2.claim,
                   platformAuth |-> c3.claim,
                   sessionBinding |-> c4.claim,
                   freshness |-> c6.claim,
                   reportStructure |-> c1.claim,
                   configBinding |-> c5.claim]
        errors == c1.errors \o c2.errors \o c3.errors \o c4.errors
                  \o c5.errors \o c6.errors
        warnings == c2.warnings \o c3.warnings \o c7.warnings
    IN
    IF bindingResult.threw THEN ThrownVerdict
    ELSE [threw |-> FALSE,
          valid |-> overallValid(claims, errors),
          platform |-> "sev-snp",
          measurement |-> evidence.measurement,
          claims |-> claims,
          errors |-> errors,
          warnings |-> warnings,
          verifiedAt |-> now]

\* AttestationVerifier.verify at clock value now
verify(evidence, transformedContext, options, now) ==
    LET mode == IF IsDefined(options.mode) THEN options.mode[1] ELSE "strict"
        bindingResult == verifyOutputBinding(evidence, transformedContext)
        c1 == checkReportStructure(evidence)
        c2 == checkCodeIdentity(evidence, options, mode)
        c3 == checkPlatformAuth(evidence, options, mode)
        c4 == checkSessionBinding(bindingResult)
        c5 == checkConfigBinding(evidence, options)
        c6 == checkFreshness(evidence, options, now)
        c7 == checkNonce(options)
        claims == [codeIdentity |-> c2.claim,
                   platformAuth |-> c3.claim,
                   sessionBinding |-> c4.claim,
                   freshness |-> c6.claim,
                   reportStructure |-> c1.claim,
                   configBinding |-> c5.claim]
        errors == c1.errors \o c2.errors \o c3.errors \o c4.errors
                  \o c5.errors \o c6.errors
        warnings == c2.warnings \o c3.warnings \o c7.warnings
    IN
    IF bindingResult.threw THEN ThrownVerdict
    ELSE [threw |-> FALSE,
          valid |-> overallValid(claims, errors),
          platform |-> "sev-snp",
          measurement |-> evidence.measurement,
          claims |-> claims,
          errors |-> errors,
          warnings |-> warnings,
          verifiedAt |-> now]

\* the context verifyEvidenceOnly passes to verify
MinimalContext == [entities |-> <<>>, relations |-> <<>>, task |-> "", model |-> <<>>]

\* verifyEvidenceOnly: verify against the minimal context, then overwrite the
\* sessionBinding claim and add a warning
verifyEvidenceOnly(evidence, options, now) ==
    LET verdict == verify(evidence, MinimalContext, options, now) IN
    IF verdict.threw THEN verdict
    ELSE [verdict EXCEPT
            !.claims.sessionBinding = FALSE,
            !.warnings = @ \o <<"Session binding not verified (no transformed context provided)">>]

\* quickVerify: strict verify with the expected measurement, valid flag only
quickVerify(evidence, transformedContext, expectedMeasurement, now) ==
    LET verdict == verify(evidence, transformedContext,
                          [expectedMeasurement |-> Some(expectedMeasurement),
                           expectedConfigHash |-> Undefined,
                           maxAge |-> Undefined,
                           mode |-> Some("strict"),
                           validateSignatureChain |-> Undefined,
                           nonce |-> Undefined],
                          now)
    IN IF verdict.threw THEN verdict ELSE [threw |-> FALSE, valid |-> verdict.valid]


----------------------------------------------------------------------------
(* runtime/session.ts: identifiers and the configuration fingerprint *)

\* randomBytes(n): the k-th draw of the random source
RandomBytes(k, n) == <<[blob |-> [rnd |-> k, n |-> n]]>>

\* generateSessionId / generateNonce
generateSessionId(k) == ToHex(RandomBytes(k, 16))
generateNonce(k) == ToHex(RandomBytes(k, 32))

\* The property names hashConfig passes to JSON.stringify as its replacer:
\* Object.keys({enclave, platform, policyVersion, securityTier}).sort()
ConfigReplacer == <<"enclave", "platform", "policyVersion", "securityTier">>

\* JSON.stringify(object, replacerArray) of an object given as a sequence of
\* [k, v] properties: an array replacer is an allow-list applied to the
\* properties of every object, nested ones included, and the properties are
\* written in the order of the array.
RECURSIVE JsonAllow(_, _)
JsonAllow(props, replacer) ==
    LET nested(v) == IF "obj" \in DOMAIN v
                     THEN [obj |-> JsonAllow(v.obj, replacer)]
                     ELSE v
        pick(name) == LET ix == {i \in 1..Len(props) : props[i].k = name} IN
                      IF ix = {} THEN <<>>
                      ELSE LET i == CHOOSE i \in ix : TRUE IN
                           <<[k |-> name, v |-> nested(props[i].v)]>>
    IN  Concat([j \in 1..Len(replacer) |-> pick(replacer[j])])

\* the object literal hashConfig serializes; platform ?? null
ConfigObject(config) ==
    <<[k |-> "enclave", v |-> [s |-> config.enclave]],
      [k |-> "platform",
       v |-> IF IsDefined(config.platform)
             THEN [obj |-> <<[k |-> "type", v |-> [s |-> config.platform[1].type]],
                             [k |-> "verificationMode",
                              v |-> [s |-> config.platform[1].verificationMode]]>>]
             ELSE [null |-> TRUE]],
      [k |-> "policyVersion", v |-> [s |-> config.policyVersion]],
      [k |-> "securityTier", v |-> [s |-> config.securityTier]]>>

\* hashConfig: hex(SHA-256(utf8(canonical JSON of the config)))
hashConfig(config) ==
    ToHex(Sha256(<<[json |-> JsonAllow(ConfigObject(config), ConfigReplacer)]>>))


----------------------------------------------------------------------------
(* The inputs the verifier is called with *)

NumSessions == 2        \* distinct session identifiers drawn
Now0 == 1000000         \* value of Date.now() during a verifier call

Entity1 ==
    [syntheticId |-> "ENTITY_0001", role |-> "Actor",
     attributes |-> <<[k |-> "type", v |-> [s |-> "organization"]]>>]
Entity1Spaced ==
    [syntheticId |-> "ENTITY_0001", role |-> "Actor",
     attributes |-> <<[k |-> "type", v |-> [s |-> "organization "]]>>]
Entity2 ==
    [syntheticId |-> "ENTITY_0002", role |-> "Value",
     attributes |-> <<[k |-> "value", v |-> [n |-> [i |-> 100, e11 |-> 0]]]>>]

\* the end-to-end context of the tests and three modifications of it
ContextX ==
    [entities |-> <<Entity1>>, relations |-> <<>>, task |-> "test", model |-> <<>>]
ContextTask == [ContextX EXCEPT !.task = "tampered"]
ContextAttr == [ContextX EXCEPT !.entities = <<Entity1Spaced>>]
ContextEntity == [ContextX EXCEPT !.entities = <<Entity1, Entity2>>]

IssuedContexts == {ContextX, MinimalContext}
TamperedContexts == {ContextTask, ContextAttr, ContextEntity}
VerifyContexts == IssuedContexts \cup TamperedContexts

ConfigA ==
    [securityTier |-> "attested", enclave |-> "auto", policyVersion |-> "v1",
     platform |-> Some([type |-> "sev-snp", verificationMode |-> "permissive"])]
ConfigB ==
    [securityTier |-> "attested", enclave |-> "required", policyVersion |-> "v1",
     platform |-> Undefined]

Junk == <<[lit |-> "zz"]>>

SessionIdStrings ==
    {generateSessionId(k) : k \in 1..NumSessions}
        \cup {ToUpper(generateSessionId(1))}
ConfigHashStrings ==
    {hashConfig(ConfigA), hashConfig(ConfigB), hashConfig(ConfigA) \o Junk}
OutputHashStrings ==
    {hashContext(x) : x \in IssuedContexts} \cup {ToUpper(hashContext(ContextX))}

\* the measurement SimulatorEnclaveRunner.execute reports, and a wrong one
RunnerMeasurement == <<[lit |-> "simulator_measurement_"], [zeros |-> 64]>>
MeasurementStrings == {RunnerMeasurement, <<[lit |-> "WRONG"]>>}

\* now, exactly the default maximum age, one past it, in the future,
\* negative, fractional
Timestamps ==
    {IntMs(Now0), IntMs(Now0 - DefaultMaxAge), IntMs(Now0 - DefaultMaxAge - 1),
     IntMs(Now0 + 1), IntMs(-1), HalfMs(Now0 - 1)}

\* generateFakeAttestationReport (runtime/enclave-bridge.ts): a 1184-byte
\* buffer, "FAKE" at 0, version at 4, the binding digest at 8, "SIMULATOR"
\* at 40, zero elsewhere
generateFakeAttestationReport(sessionId, configHash, outputHash, timestamp) ==
    [len |-> ReportSize, head |-> "FAKE",
     d8 |-> Sha256(sessionId \o configHash \o outputHash \o U64BE(timestamp)),
     meas |-> Zeros(48), d640 |-> Zeros(64), sig |-> Zeros(64)]

\* a report of the real layout carrying reportData and a signature
RealReport(reportData32) ==
    [len |-> ReportSize, head |-> "v2",
     d8 |-> Zeros(32), meas |-> RandomBytes(9, 48),
     d640 |-> reportData32 \o Zeros(32), sig |-> RandomBytes(8, 64)]

EmptyReport ==
    [len |-> 0, head |-> "", d8 |-> <<>>, meas |-> <<>>, d640 |-> <<>>, sig |-> <<>>]
\* the four bytes "FAKE" and nothing else
ShortFakeReport ==
    [len |-> 4, head |-> "FAKE", d8 |-> <<>>, meas |-> <<>>, d640 |-> <<>>, sig |-> <<>>]

\* digests embedded in the reports drawn: issued for session 1 under ConfigA
\* at Now0, for each issued context
IssuedDigests ==
    {bindingDigest(generateSessionId(1), hashConfig(ConfigA), hashContext(x), IntMs(Now0))
        : x \in IssuedContexts}

Reports ==
    {generateFakeAttestationReport(FromHex(generateSessionId(1)),
                                   FromHex(hashConfig(ConfigA)),
                                   FromHex(hashContext(x)), IntMs(Now0))
        : x \in IssuedContexts}
    \cup {RealReport(bindingDigest(generateSessionId(1), hashConfig(ConfigA),
                                   hashContext(ContextX), IntMs(Now0)))}
    \cup {EmptyReport, ShortFakeReport}

Evidences ==
    {[platform |-> "sev-snp", report |-> r, measurement |-> m, configHash |-> ch,
      sessionId |-> sid, outputHash |-> oh, timestamp |-> ts, version |-> "1.0"] :
        r \in Reports, m \in MeasurementStrings, ch \in ConfigHashStrings,
        sid \in SessionIdStrings, oh \in OutputHashStrings, ts \in Timestamps}

NoOptions ==
    [expectedMeasurement |-> Undefined, expectedConfigHash |-> Undefined,
     maxAge |-> Undefined, mode |-> Undefined,
     validateSignatureChain |-> Undefined, nonce |-> Undefined]

AllExpected ==
    [NoOptions EXCEPT !.expectedMeasurement = Some(RunnerMeasurement),
                      !.expectedConfigHash = Some(hashConfig(ConfigA)),
                      !.maxAge = Some(0)]

OptionsSet ==
    {[NoOptions EXCEPT !.expectedMeasurement = em, !.mode = mo,
                       !.validateSignatureChain = vsc] :
        em \in {Undefined, Some(RunnerMeasurement)},
        mo \in {Undefined, Some("permissive")},
        vsc \in {Undefined, Some(FALSE)}}
    \cup {[o EXCEPT !.mode = mo] :
            o \in {AllExpected,
                   [NoOptions EXCEPT !.expectedMeasurement = Some(<<>>)],
                   [NoOptions EXCEPT !.expectedConfigHash = Some(hashConfig(ConfigA))],
                   [NoOptions EXCEPT !.expectedConfigHash = Some(<<>>)],
                   [NoOptions EXCEPT !.maxAge = Some(0)]},
            mo \in {Undefined, Some("permissive")}}
    \cup {[NoOptions EXCEPT !.nonce = Some(<<[lit |-> "n"]>>)],
          [NoOptions EXCEPT !.mode = Some("strict"),
                            !.validateSignatureChain = Some(TRUE)]}

----------------------------------------------------------------------------
(* The verifier as a state machine: a caller invokes one entry point with  *)
(* some arguments and receives what it returns.                            *)

NoCall == [op |-> "none"]
NoOut == [threw |-> FALSE, none |-> TRUE]

NoAxiom == [constructed |-> FALSE]
NoSession == [created |-> FALSE]
NoVerdict == [threw |-> FALSE, none |-> TRUE]
NoManager == [constructed |-> FALSE]

Init ==
    /\ pc = "idle"
    /\ call = NoCall
    /\ out = NoOut
    /\ axiom = NoAxiom
    /\ native = "missing"
    /\ clock = Now0
    /\ drawn = 0
    /\ session = NoSession
    /\ lastVerdict = NoVerdict
    /\ manager = NoManager

Verify ==
    /\ pc = "idle"
    /\ \E ev \in Evidences, ctx \in VerifyContexts, opts \in OptionsSet :
        /\ call' = [op |-> "verify", evidence |-> ev, context |-> ctx,
                    options |-> opts, now |-> Now0]
        /\ out' = verify(ev, ctx, opts, Now0)
    /\ pc' = "returned"
    /\ UNCHANGED runtimeVars

VerifyEvidenceOnly ==
    /\ pc = "idle"
    /\ \E ev \in Evidences, opts \in OptionsSet :
        /\ call' = [op |-> "verifyEvidenceOnly", evidence |-> ev,
                    context |-> MinimalContext, options |-> opts, now |-> Now0]
        /\ out' = verifyEvidenceOnly(ev, opts, Now0)
    /\ pc' = "returned"
    /\ UNCHANGED runtimeVars

QuickVerify ==
    /\ pc = "idle"
    /\ \E ev \in Evidences, ctx \in VerifyContexts, em \in MeasurementStrings :
        /\ call' = [op |-> "quickVerify", evidence |-> ev, context |-> ctx,
                    expectedMeasurement |-> em, now |-> Now0]
        /\ out' = quickVerify(ev, ctx, em, Now0)
    /\ pc' = "returned"
    /\ UNCHANGED runtimeVars

\* the caller is done with the verdict
Return ==
    /\ pc = "returned"
    /\ pc' = "idle"
    /\ call' = NoCall
    /\ out' = NoOut
    /\ UNCHANGED runtimeVars

Next == Verify \/ VerifyEvidenceOnly \/ QuickVerify \/ Return

Spec == Init /\ [][Next]_vars


----------------------------------------------------------------------------
(* core/axiom.ts, runtime/executor.ts, runtime/enclave-bridge.ts and       *)
(* runtime/session.ts: the path of a reason() call.                        *)
(* A raw context is a string; the transformation pipeline is a             *)
(* deterministic function of it and its boundary validation passes.        *)

MaxTicks == 3           \* advances of the clock
TickMs == 150000        \* milliseconds per advance

ConfigurationError(message) ==
    [threw |-> TRUE, error |-> "ConfigurationError", message |-> message]
JsError(message) == [threw |-> TRUE, error |-> "Error", message |-> message]

\* String.prototype.trim on the raw strings drawn
Trim(s) == IF s = " " THEN "" ELSE s

\* Axiom.validateConfig: the message of the error it throws, "" when none
validateConfig(config) ==
    IF config.securityTier \notin {"standard", "attested"}
    THEN "Invalid securityTier"
    ELSE IF config.enclave \notin {"auto", "required", "none"}
    THEN "Invalid enclave"
    ELSE IF config.policyVersion # "v1"
    THEN "Invalid policyVersion"
    ELSE IF config.securityTier = "attested" /\ config.enclave = "none"
    THEN "securityTier attested requires enclave to be auto or required"
    ELSE ""

\* Axiom.validateReasonInput: the message of the error it throws, "" when none
validateReasonInput(input) ==
    IF input.context = "" THEN "Context is required"
    ELSE IF Trim(input.context) = "" THEN "Context cannot be empty"
    ELSE IF input.task = "" \/ Trim(input.task) = "" THEN "Task is required"
    ELSE ""

\* distill, abstract, mask: entities and relations of a raw context
Masked(rawContext) ==
    IF rawContext = "alpha"
    THEN [entities |-> <<Entity1>>, relations |-> <<>>]
    ELSE [entities |-> <<Entity2, Entity1>>,
          relations |-> <<[type |-> "paid", from |-> "ENTITY_0001",
                           to |-> "ENTITY_0002"]>>]

\* Executor.execute: the standard pipeline
execute(context, task, model) ==
    [entities |-> Masked(context).entities,
     relations |-> Masked(context).relations,
     task |-> task, model |-> model]

\* new Session(config): the k-th session, created at clock value now
SessionCreate(config, k, now) ==
    [created |-> TRUE,
     sessionId |-> generateSessionId(k),
     configHash |-> hashConfig(config),
     nonce |-> generateNonce(k),
     createdAt |-> now,
     securityTier |-> config.securityTier,
     enclaveUsed |-> FALSE,
     platform |-> IF IsDefined(config.platform)
                  THEN Some(config.platform[1].type) ELSE Undefined,
     outputHash |-> Undefined,
     finalized |-> FALSE]

\* the number of characters of a string of hexadecimal digits, -1 for a
\* string with another character
RECURSIVE HexLen(_)
HexLen(str) ==
    IF str = <<>> THEN 0
    ELSE LET t == Head(str)
             n == IF "hex" \in DOMAIN t THEN 2 * ByteLen([blob |-> t.hex])
                  ELSE IF "zeros" \in DOMAIN t THEN t.zeros
                  ELSE IF IsHexCh(t) THEN 1
                  ELSE -1
             rest == HexLen(Tail(str))
         IN  IF n < 0 \/ rest < 0 THEN -1 ELSE n + rest

\* /^[0-9a-f]{64}$/i
IsHex64(str) == HexLen(str) = 64

\* Session mutators: [threw, session]
setOutputHash(s, hash) ==
    IF s.finalized \/ ~IsHex64(hash) THEN [threw |-> TRUE, session |-> s]
    ELSE [threw |-> FALSE, session |-> [s EXCEPT !.outputHash = Some(hash)]]

\* setEnclaveUsed without the check of the finalized flag
setEnclaveUsed_NoGuard(s, platform) ==
    [threw |-> FALSE,
     session |-> [s EXCEPT !.enclaveUsed = TRUE, !.platform = Some(platform)]]

setEnclaveUsed(s, platform) ==
    IF s.finalized THEN [threw |-> TRUE, session |-> s]
    ELSE [threw |-> FALSE,
          session |-> [s EXCEPT !.enclaveUsed = TRUE, !.platform = Some(platform)]]

finalize(s) ==
    IF s.finalized THEN [threw |-> TRUE, session |-> s]
    ELSE [threw |-> FALSE, session |-> [s EXCEPT !.finalized = TRUE]]

getOutputHash(s) == s.outputHash
isFinalized(s) == s.finalized

\* createBindingData with no check that outputHash is set
createBindingData_NoGuard(s) ==
    Returned(FromHex(s.sessionId) \o FromHex(s.configHash)
             \o (IF IsDefined(s.outputHash) THEN FromHex(s.outputHash[1]) ELSE <<>>))

\* createBindingData: throws unless outputHash is a non-empty string
createBindingData(s) ==
    IF ~Truthy(s.outputHash)
    THEN Thrown("Output hash not set - cannot create binding data")
    ELSE Returned(FromHex(s.sessionId) \o FromHex(s.configHash)
                  \o FromHex(s.outputHash[1]))

\* createReportData: SHA-256(binding data || createdAt as 8 bytes big-endian)
createReportData(s) ==
    LET bindingData == createBindingData(s) IN
    IF ~bindingData.ok THEN bindingData
    ELSE IF U64Throws(IntMs(s.createdAt)) THEN Thrown("RangeError")
    ELSE Returned(Sha256(bindingData.value \o U64BE(IntMs(s.createdAt))))

\* verifyBinding restoring outputHash after the comparison only, with no
\* finally clause
verifyBinding_NoFinally(s, reportData, outputHash) ==
    LET originalOutputHash == s.outputHash
        during == [s EXCEPT !.outputHash = Some(outputHash)]
        expected == createReportData(during)
        restored == [during EXCEPT !.outputHash = originalOutputHash]
    IN  IF expected.ok
        THEN [threw |-> FALSE, value |-> (reportData = expected.value),
              session |-> restored]
        ELSE [threw |-> TRUE, error |-> expected.error, session |-> during]

\* verifyBinding: [threw, value, session]; outputHash is replaced by the
\* candidate for the computation and restored in the finally clause
verifyBinding(s, reportData, outputHash) ==
    LET originalOutputHash == s.outputHash
        during == [s EXCEPT !.outputHash = Some(outputHash)]
        expected == createReportData(during)
        restored == [during EXCEPT !.outputHash = originalOutputHash]
    IN  IF expected.ok
        THEN [threw |-> FALSE, value |-> (reportData = expected.value),
              session |-> restored]
        ELSE [threw |-> TRUE, error |-> expected.error, session |-> restored]

\* SimulatorEnclaveRunner.execute
SimulatorExecute(request) ==
    LET transformedContext ==
            [entities |-> Masked(request.rawContext).entities,
             relations |-> Masked(request.rawContext).relations,
             task |-> IF IsDefined(request.taskHint)
                      THEN request.taskHint[1] ELSE "transform",
             model |-> Undefined]
        outputHash == FromHex(hashContext(transformedContext))
    IN  [threw |-> FALSE,
         transformedContext |-> canonicalize(transformedContext),
         outputHash |-> outputHash,
         attestationReport |->
            generateFakeAttestationReport(request.sessionId,
                                          FromHex(request.configHash),
                                          outputHash, request.timestamp),
         measurement |-> RunnerMeasurement]

\* what the native module's transform() does is not part of the sources:
\* it rejects, or answers with a report of the real layout
NativeOutcomes == {"rejects", "attests"}

\* NativeEnclaveRunner.execute: serializeRequest, transform, deserializeResponse
NativeExecute(request, nat) ==
    LET transformedContext ==
            [entities |-> Masked(request.rawContext).entities,
             relations |-> Masked(request.rawContext).relations,
             task |-> IF IsDefined(request.taskHint)
                      THEN request.taskHint[1] ELSE "transform",
             model |-> Undefined]
        output_hash == hashContext(transformedContext)
        report == RealReport(Sha256(request.sessionId \o FromHex(request.configHash)
                                    \o FromHex(output_hash)
                                    \o U64BE(request.timestamp)))
    IN  IF nat = "rejects" THEN JsError("transform failed")
        ELSE [threw |-> FALSE,
              transformedContext |-> canonicalize(transformedContext),
              outputHash |-> FromHex(output_hash),
              attestationReport |-> report,
              measurement |-> ToHex(report.meas)]

\* createEnclaveBridge: the runner the new bridge ends up with.  The native
\* runner is available when its module loads and check_availability() is true.
createEnclaveBridge(preferNative, nativeState) ==
    IF preferNative /\ nativeState = "up" THEN "native" ELSE "simulator"

\* EnclaveBridge.isAvailable
bridgeIsAvailable(bridge, nativeState) ==
    bridge = "simulator" \/ (bridge = "native" /\ nativeState = "up")

\* EnclaveBridge.createEvidence (the optional signature field, which no
\* check reads, is left out)
createEvidence(response, sessionId, configHash, timestamp) ==
    [platform |-> "sev-snp",
     report |-> response.attestationReport,
     measurement |-> response.measurement,
     configHash |-> configHash,
     sessionId |-> sessionId,
     outputHash |-> ToHex(response.outputHash),
     timestamp |-> timestamp,
     version |-> "1.0"]

\* ReasonResult of the standard pipeline
StandardResult(transformedContext) ==
    [threw |-> FALSE, transformedContext |-> transformedContext,
     attestationEvidence |-> Undefined, verificationHint |-> Undefined]

\* Executor.executeAttested: [out, bridge, session]
executeAttested(config, bridge0, input, session0, nativeState, nat, now) ==
    LET bridge == IF bridge0 = "unset"
                  THEN createEnclaveBridge(config.enclave # "none", nativeState)
                  ELSE bridge0
        available == bridgeIsAvailable(bridge, nativeState)
        request == [rawContext |-> input.context,
                    taskHint |-> Some(input.task),
                    sessionId |-> FromHex(session0.sessionId),
                    configHash |-> session0.configHash,
                    nonce |-> FromHex(session0.nonce),
                    timestamp |-> IntMs(session0.createdAt)]
        response == IF bridge = "simulator" THEN SimulatorExecute(request)
                    ELSE NativeExecute(request, nat)
        transformedContext ==
            [JsonParse(response.transformedContext) EXCEPT
                !.task = input.task, !.model = input.model]
        s1 == setOutputHash(session0, hashContext(transformedContext))
        s2 == setEnclaveUsed(s1.session, "sev-snp")
        s3 == finalize(s2.session)
    IN  IF ~available
        THEN [out |-> IF config.enclave = "required"
                      THEN ConfigurationError("Enclave execution required but not available")
                      ELSE StandardResult(execute(input.context, input.task, input.model)),
              bridge |-> bridge, session |-> session0]
        ELSE IF response.threw
        THEN [out |-> response, bridge |-> bridge, session |-> session0]
        ELSE IF s1.threw \/ s2.threw \/ s3.threw
        THEN [out |-> JsError("session"), bridge |-> bridge, session |-> s3.session]
        ELSE [out |-> [threw |-> FALSE,
                       transformedContext |-> transformedContext,
                       attestationEvidence |->
                            Some(createEvidence(response, session0.sessionId,
                                                session0.configHash, request.timestamp)),
                       verificationHint |->
                            Some([expectedMeasurement |-> response.measurement,
                                  platform |-> "sev-snp", timestamp |-> now])],
              bridge |-> bridge, session |-> s3.session]

\* Axiom.executeStandard: [out, bridge, session]
executeStandard(bridge0, input, session0) ==
    LET transformedContext == execute(input.context, input.task, input.model)
        s1 == setOutputHash(session0, hashContext(transformedContext))
        s2 == finalize(s1.session)
    IN  [out |-> IF s1.threw \/ s2.threw THEN JsError("session")
                 ELSE StandardResult(transformedContext),
         bridge |-> bridge0, session |-> s2.session]

\* Axiom.reason: [out, bridge, session]
reason(config, bridge0, input, nativeState, nat, k, now) ==
    IF validateReasonInput(input) # ""
    THEN [out |-> ConfigurationError(validateReasonInput(input)),
          bridge |-> bridge0, session |-> NoSession]
    ELSE IF config.securityTier = "attested"
    THEN executeAttested(config, bridge0, input, SessionCreate(config, k, now),
                         nativeState, nat, now)
    ELSE executeStandard(bridge0, input, SessionCreate(config, k, now))

\* the options of the documented check of a result
HintOptions(hint) ==
    [NoOptions EXCEPT !.expectedMeasurement = Some(hint.expectedMeasurement),
                      !.mode = Some("permissive")]

AxiomConfigs ==
    {[securityTier |-> t, enclave |-> e, policyVersion |-> "v1", platform |-> Undefined] :
        t \in {"standard", "attested"}, e \in {"auto", "required", "none"}}
    \cup {ConfigA, [ConfigA EXCEPT !.policyVersion = "v2"]}

ReasonInputs ==
    {[context |-> c, task |-> t, model |-> m] :
        c \in {"", " ", "alpha", "beta"},
        t \in {"", "test", "summarize payment"},
        m \in {Undefined, Some("gpt-4")}}

InitReason ==
    /\ pc = "idle"
    /\ call = NoCall
    /\ out = NoOut
    /\ axiom = NoAxiom
    /\ native \in {"missing", "down", "up"}
    /\ clock = Now0
    /\ drawn = 0
    /\ session = NoSession
    /\ lastVerdict = NoVerdict
    /\ manager = NoManager

\* new Axiom(config)
NewAxiom ==
    /\ pc = "idle"
    /\ \E config \in AxiomConfigs :
        /\ call' = [op |-> "new Axiom", config |-> config]
        /\ IF validateConfig(config) = ""
           THEN /\ axiom' = [constructed |-> TRUE, config |-> config, bridge |-> "unset"]
                /\ out' = [threw |-> FALSE, none |-> FALSE]
           ELSE /\ axiom' = axiom
                /\ out' = ConfigurationError(validateConfig(config))
    /\ pc' = "returned"
    /\ UNCHANGED <<native, clock, drawn, session, lastVerdict, manager>>

\* axiom.reason(input)
Reason ==
    /\ pc = "idle"
    /\ axiom.constructed
    /\ drawn < NumSessions
    /\ \E input \in ReasonInputs, nat \in NativeOutcomes :
        \E r \in {reason(axiom.config, axiom.bridge, input, native, nat,
                         drawn + 1, clock)} :
            /\ call' = [op |-> "reason", input |-> input, config |-> axiom.config,
                        native |-> native, bridge |-> r.bridge]
            /\ out' = r.out
            /\ axiom' = [axiom EXCEPT !.bridge = r.bridge]
            /\ session' = r.session
            /\ drawn' = IF r.session = NoSession THEN drawn ELSE drawn + 1
    /\ pc' = "returned"
    /\ UNCHANGED <<native, clock, lastVerdict, manager>>

\* the caller verifies the evidence of the result against its context
VerifyResult ==
    /\ pc = "returned"
    /\ call.op = "reason"
    /\ ~out.threw
    /\ IsDefined(out.attestationEvidence)
    /\ lastVerdict' = verify(out.attestationEvidence[1], out.transformedContext,
                         HintOptions(out.verificationHint[1]), clock)
    /\ pc' = "verified"
    /\ UNCHANGED <<call, out, axiom, native, clock, drawn, session, manager>>

\* the caller drops the result
Done ==
    /\ pc \in {"returned", "verified"}
    /\ pc' = "idle"
    /\ call' = NoCall
    /\ out' = NoOut
    /\ session' = NoSession
    /\ lastVerdict' = NoVerdict
    /\ UNCHANGED <<axiom, native, clock, drawn, manager>>

\* the native runner comes up or goes down
EnvChange ==
    /\ pc = "idle"
    /\ native \in {"down", "up"}
    /\ native' = IF native = "up" THEN "down" ELSE "up"
    /\ UNCHANGED <<pc, call, out, axiom, clock, drawn, session, lastVerdict, manager>>

\* time passes
Tick ==
    /\ pc \in {"idle", "returned"}
    /\ clock < Now0 + MaxTicks * TickMs
    /\ clock' = clock + TickMs
    /\ UNCHANGED <<pc, call, out, axiom, native, drawn, session, lastVerdict, manager>>

NextReason == NewAxiom \/ Reason \/ VerifyResult \/ Done \/ EnvChange \/ Tick

SpecReason == InitReason /\ [][NextReason]_vars

----------------------------------------------------------------------------
(* hashConfig applied to two configurations *)

PlatformValues ==
    {Undefined,
     Some([type |-> "sev-snp", verificationMode |-> "strict"]),
     Some([type |-> "sev-snp", verificationMode |-> "permissive"]),
     Some([type |-> "tdx", verificationMode |-> "strict"])}

ConfigValues ==
    {[securityTier |-> t, enclave |-> e, policyVersion |-> v, platform |-> p] :
        t \in {"standard", "attested"}, e \in {"auto", "required", "none"},
        v \in {"v1", "v2"}, p \in PlatformValues}

InitConfig ==
    /\ pc = "idle"
    /\ \E a \in ConfigValues, b \in ConfigValues :
          call = [op |-> "hashConfig", a |-> a, b |-> b]
    /\ out = NoOut
    /\ axiom = NoAxiom
    /\ native = "missing"
    /\ clock = Now0
    /\ drawn = 0
    /\ session = NoSession
    /\ lastVerdict = NoVerdict
    /\ manager = NoManager

HashConfig ==
    /\ pc = "idle"
    /\ call.op = "hashConfig"
    /\ out' = [threw |-> FALSE, a |-> hashConfig(call.a), b |-> hashConfig(call.b)]
    /\ pc' = "returned"
    /\ UNCHANGED <<call, axiom, native, clock, drawn, session, lastVerdict, manager>>

NextConfig == HashConfig

SpecConfig == InitConfig /\ [][NextConfig]_vars

----------------------------------------------------------------------------
(* A Session driven directly by a caller (runtime/session.ts).  call keeps  *)
(* the operation, its arguments and the session as it was before the call. *)

\* strings passed as output hash: two hashes, an upper-case spelling, 64
\* zeros, a hash followed by other characters, other text, the empty string
HashInputs ==
    {hashContext(ContextX), hashContext(ContextTask), ToUpper(hashContext(ContextX)),
     <<[zeros |-> 64]>>, hashContext(ContextX) \o Junk, Junk, <<>>}

SessionConfigs == {ConfigA, ConfigB}

\* reportData values handed to verifyBinding: digests of sessions the model
\* can create, and 32 zero bytes
ReportDataInputs ==
    {bindingDigest(generateSessionId(k), hashConfig(c), h, IntMs(Now0)) :
        k \in 1..NumSessions, c \in SessionConfigs,
        h \in {hashContext(ContextX), hashContext(ContextTask)}}
    \cup {Zeros(32)}

InitSession ==
    /\ pc = "idle"
    /\ call = NoCall
    /\ out = NoOut
    /\ axiom = NoAxiom
    /\ native = "missing"
    /\ clock = Now0
    /\ drawn = 0
    /\ session = NoSession
    /\ lastVerdict = NoVerdict
    /\ manager = NoManager

sessionFrame == <<pc, axiom, native, clock, lastVerdict, manager>>

CreateSession ==
    /\ drawn < NumSessions
    /\ \E config \in SessionConfigs :
        /\ call' = [op |-> "create", config |-> config, before |-> session]
        /\ session' = SessionCreate(config, drawn + 1, clock)
    /\ drawn' = drawn + 1
    /\ out' = [threw |-> FALSE]
    /\ UNCHANGED sessionFrame

SetOutputHash ==
    /\ session.created
    /\ \E hash \in HashInputs :
        /\ call' = [op |-> "setOutputHash", hash |-> hash, before |-> session]
        /\ out' = [threw |-> setOutputHash(session, hash).threw]
        /\ session' = setOutputHash(session, hash).session
    /\ UNCHANGED <<sessionFrame, drawn>>

SetEnclaveUsed ==
    /\ session.created
    /\ call' = [op |-> "setEnclaveUsed", before |-> session]
    /\ out' = [threw |-> setEnclaveUsed(session, "sev-snp").threw]
    /\ session' = setEnclaveUsed(session, "sev-snp").session
    /\ UNCHANGED <<sessionFrame, drawn>>

Finalize ==
    /\ session.created
    /\ call' = [op |-> "finalize", before |-> session]
    /\ out' = [threw |-> finalize(session).threw]
    /\ session' = finalize(session).session
    /\ UNCHANGED <<sessionFrame, drawn>>

GetOutputHash ==
    /\ session.created
    /\ call' = [op |-> "getOutputHash", before |-> session]
    /\ out' = [threw |-> FALSE, value |-> getOutputHash(session)]
    /\ UNCHANGED <<sessionFrame, drawn, session>>

IsFinalized ==
    /\ session.created
    /\ call' = [op |-> "isFinalized", before |-> session]
    /\ out' = [threw |-> FALSE, value |-> isFinalized(session)]
    /\ UNCHANGED <<sessionFrame, drawn, session>>

VerifyBinding ==
    /\ session.created
    /\ \E reportData \in ReportDataInputs, outputHash \in HashInputs :
        /\ call' = [op |-> "verifyBinding", reportData |-> reportData,
                    outputHash |-> outputHash, before |-> session]
        /\ \E r \in {verifyBinding(session, reportData, outputHash)} :
            /\ out' = IF r.threw THEN [threw |-> TRUE]
                      ELSE [threw |-> FALSE, value |-> r.value]
            /\ session' = r.session
    /\ UNCHANGED <<sessionFrame, drawn>>

CreateReportData ==
    /\ session.created
    /\ call' = [op |-> "createReportData", before |-> session]
    /\ \E r \in {createReportData(session)} :
          out' = IF r.ok THEN [threw |-> FALSE, value |-> r.value]
                 ELSE [threw |-> TRUE]
    /\ UNCHANGED <<sessionFrame, drawn, session>>
\* the reports of either layout issued for a session, and the empty buffer
SessionReports ==
    {generateFakeAttestationReport(FromHex(generateSessionId(k)),
                                   FromHex(hashConfig(c)), FromHex(h), IntMs(Now0)) :
        k \in 1..NumSessions, c \in SessionConfigs, h \in {hashContext(ContextX)}}
    \cup {RealReport(bindingDigest(generateSessionId(k), hashConfig(c),
                                   hashContext(ContextX), IntMs(Now0))) :
            k \in 1..NumSessions, c \in SessionConfigs}
    \cup {EmptyReport}

\* session.verifyBinding(extractReportData(report), outputHash).  The report
\* is a Buffer or a plain Uint8Array, and slice() keeps the kind; only a
\* Buffer has equals().
VerifyBindingOfReport ==
    /\ session.created
    /\ \E report \in SessionReports, isBuffer \in BOOLEAN,
          outputHash \in {hashContext(ContextX), hashContext(ContextTask),
                          ToUpper(hashContext(ContextX))} :
        /\ call' = [op |-> "verifyBindingOfReport", report |-> report,
                    isBuffer |-> isBuffer, outputHash |-> outputHash,
                    before |-> session]
        /\ \E reportData \in {extractReportData(report)} :
            IF ~reportData.ok
            THEN out' = [threw |-> TRUE] /\ session' = session
            ELSE \E r \in {verifyBinding(session, reportData.value, outputHash)} :
                    /\ out' = IF r.threw \/ ~isBuffer THEN [threw |-> TRUE]
                              ELSE [threw |-> FALSE, value |-> r.value]
                    /\ session' = r.session
    /\ UNCHANGED <<sessionFrame, drawn>>



NextSession ==
    \/ CreateSession
    \/ CreateReportData
    \/ SetOutputHash
    \/ SetEnclaveUsed
    \/ Finalize
    \/ GetOutputHash
    \/ IsFinalized
    \/ VerifyBinding
    \/ VerifyBindingOfReport

SpecSession == InitSession /\ [][NextSession]_vars


----------------------------------------------------------------------------
(* The canonical serializer called directly (core/canonical.ts).           *)

EntityAttrs ==
    [syntheticId |-> "ENTITY_0000", role |-> "Actor",
     attributes |-> <<[k |-> "value", v |-> [s |-> "paid"]],
                      [k |-> "type", v |-> [s |-> "organization"]]>>]
EntityIndexKeys ==
    [syntheticId |-> "ENTITY_0000", role |-> "Actor",
     attributes |-> <<[k |-> "9", v |-> [s |-> "paid"]],
                      [k |-> "10", v |-> [n |-> [i |-> 100, e11 |-> 0]]]>>]
\* two entities whose identifiers differ and are canonically equivalent
EntityNfc == [syntheticId |-> "ENTITY_\\u00e9", role |-> "Actor", attributes |-> <<>>]
EntityNfd == [syntheticId |-> "ENTITY_e\\u0301", role |-> "Value", attributes |-> <<>>]

Relation12 == [type |-> "paid", from |-> "ENTITY_0001", to |-> "ENTITY_0002"]
Relation21 == [type |-> "paid", from |-> "ENTITY_0002", to |-> "ENTITY_0001"]

CanonBases ==
    {ContextX, MinimalContext,
     [entities |-> <<Entity1, Entity2, EntityAttrs>>,
      relations |-> <<Relation12, Relation21>>, task |-> "test", model |-> <<>>],
     [entities |-> <<Entity1, EntityNfc, EntityNfd>>,
      relations |-> <<>>, task |-> "test", model |-> <<>>],
     [entities |-> <<EntityIndexKeys>>,
      relations |-> <<>>, task |-> "summarize payment", model |-> <<>>],
     [entities |-> <<Entity1Spaced>>,
      relations |-> <<Relation12>>, task |-> "col1\tcol2\nrow2", model |-> <<"gpt-4">>]}

\* the orders in which the elements of an array can be supplied
SeqPerms(seq) ==
    {[i \in 1..Len(seq) |-> seq[p[i]]] : p \in Permutations(1..Len(seq))}

\* the same entities with their attribute keys inserted in any order
AttrOrders(entities) ==
    {es \in [1..Len(entities) ->
                UNION {{[entities[i] EXCEPT !.attributes = a] :
                          a \in SeqPerms(entities[i].attributes)} :
                       i \in 1..Len(entities)}] :
        \A i \in 1..Len(entities) :
            /\ es[i].syntheticId = entities[i].syntheticId
            /\ es[i].role = entities[i].role
            /\ es[i].attributes \in SeqPerms(entities[i].attributes)}

\* every reordering of a context: entities permuted, relations permuted,
\* attribute keys inserted in another order
Reorderings(context) ==
    {[context EXCEPT !.entities = e, !.relations = r] :
        e \in UNION {SeqPerms(es) : es \in AttrOrders(context.entities)},
        r \in SeqPerms(context.relations)}

CanonContexts == UNION {Reorderings(c) : c \in CanonBases}

Canonicalize ==
    /\ pc = "idle"
    /\ \E context \in CanonContexts :
        /\ call' = [op |-> "canonicalize", context |-> context]
        \* the argument is copied with slice() before it is sorted
        /\ out' = [threw |-> FALSE, value |-> canonicalize(context),
                   argument |-> context]
    /\ pc' = "returned"
    /\ UNCHANGED runtimeVars

Hash ==
    /\ pc = "idle"
    /\ \E context \in CanonContexts :
        /\ call' = [op |-> "hash", context |-> context]
        /\ out' = [threw |-> FALSE, value |-> hashContext(context)]
    /\ pc' = "returned"
    /\ UNCHANGED runtimeVars

VerifyEquivalence ==
    /\ pc = "idle"
    /\ \E a \in CanonContexts, b \in CanonContexts :
        /\ call' = [op |-> "verifyEquivalence", a |-> a, b |-> b]
        /\ out' = [threw |-> FALSE, value |-> verifyEquivalence(a, b)]
    /\ pc' = "returned"
    /\ UNCHANGED runtimeVars

NextCanonical == Canonicalize \/ Hash \/ VerifyEquivalence \/ Return

SpecCanonical == Init /\ [][NextCanonical]_vars


----------------------------------------------------------------------------
(* The report decoder called directly (attestation/types.ts), and verify   *)
(* applied to evidence that carries each of the buffers.                   *)

\* buffer lengths around the marker and around the minimum report size
ReportLengths == {0, 3, 4, ReportSize - 1, ReportSize, ReportSize + 1}

\* the bytes of a region whose last byte is at offset last, in a buffer of
\* len bytes
Region(len, last, bytes) == IF len > last THEN bytes ELSE <<>>

BufferOf(len, magic, data8, data640, signature) ==
    [len |-> len,
     head |-> IF len >= 4 THEN magic ELSE "",
     d8 |-> Region(len, 39, data8),
     meas |-> Region(len, 95, RandomBytes(9, 48)),
     d640 |-> Region(len, 703, data640),
     sig |-> Region(len, 767, signature)]

IssuedDigest ==
    bindingDigest(generateSessionId(1), hashConfig(ConfigA),
                  hashContext(ContextX), IntMs(Now0))

\* buffers of every length, with and without the simulator marker, the
\* binding digest at offset 8 or at offset 640 or nowhere, and a signature
\* region that is all zero or not
ReportInputs ==
    {BufferOf(len, magic, data8, data640, signature) :
        len \in ReportLengths, magic \in {"FAKE", "v2"},
        data8 \in {Zeros(32), IssuedDigest},
        data640 \in {Zeros(64), IssuedDigest \o Zeros(32)},
        signature \in {Zeros(64), RandomBytes(8, 64)}}

\* the evidence issued for session 1 under ConfigA at Now0, with report r
EvidenceWith(r) ==
    [platform |-> "sev-snp", report |-> r, measurement |-> RunnerMeasurement,
     configHash |-> hashConfig(ConfigA), sessionId |-> generateSessionId(1),
     outputHash |-> hashContext(ContextX), timestamp |-> IntMs(Now0),
     version |-> "1.0"]

ChainOptions ==
    {[NoOptions EXCEPT !.mode = mo, !.validateSignatureChain = vsc] :
        mo \in {Undefined, Some("permissive")},
        vsc \in {Undefined, Some(TRUE), Some(FALSE)}}

\* what a caller sees of a function that returns or throws
Completion(r) ==
    IF r.ok THEN [threw |-> FALSE, value |-> r.value]
    ELSE [threw |-> TRUE, error |-> r.error]

ParseAttestationReport ==
    /\ pc = "idle"
    /\ \E r \in ReportInputs :
        /\ call' = [op |-> "parseAttestationReport", report |-> r]
        /\ out' = Completion(parseAttestationReport(r))
    /\ pc' = "returned"
    /\ UNCHANGED runtimeVars

ExtractReportData ==
    /\ pc = "idle"
    /\ \E r \in ReportInputs :
        /\ call' = [op |-> "extractReportData", report |-> r]
        /\ out' = Completion(extractReportData(r))
    /\ pc' = "returned"
    /\ UNCHANGED runtimeVars

ValidateReportStructure ==
    /\ pc = "idle"
    /\ \E r \in ReportInputs :
        /\ call' = [op |-> "validateReportStructure", report |-> r]
        /\ out' = [threw |-> FALSE, value |-> validateReportStructure(r)]
    /\ pc' = "returned"
    /\ UNCHANGED runtimeVars

IsSimulatorReport ==
    /\ pc = "idle"
    /\ \E r \in ReportInputs :
        /\ call' = [op |-> "isSimulatorReport", report |-> r]
        /\ out' = [threw |-> FALSE, value |-> isSimulatorReport(r)]
    /\ pc' = "returned"
    /\ UNCHANGED runtimeVars

VerifyReport ==
    /\ pc = "idle"
    /\ \E r \in ReportInputs, opts \in ChainOptions :
        /\ call' = [op |-> "verify", evidence |-> EvidenceWith(r),
                    context |-> ContextX, options |-> opts, now |-> Now0]
        /\ out' = verify(EvidenceWith(r), ContextX, opts, Now0)
    /\ pc' = "returned"
    /\ UNCHANGED runtimeVars

NextReport ==
    \/ ParseAttestationReport
    \/ ExtractReportData
    \/ ValidateReportStructure
    \/ IsSimulatorReport
    \/ VerifyReport
    \/ Return

SpecReport == Init /\ [][NextReport]_vars


----------------------------------------------------------------------------
(* verify called by concurrent tasks on one AttestationVerifier             *)
(* (attestation/verifier.ts).  verify is an async function with one await, *)
(* on verifyPlatformSignature, which it reaches unless                     *)
(* validateSignatureChain is false; Date.now() is read after it.  The      *)
(* verifier has no fields: errors, warnings and claims are locals of the   *)
(* call.  pc, call and out hold one entry per task.                        *)

Tasks == {1, 2}

TaskEvidences ==
    {EvidenceWith(generateFakeAttestationReport(
                      FromHex(generateSessionId(1)), FromHex(hashConfig(ConfigA)),
                      FromHex(hashContext(ContextX)), IntMs(Now0))),
     EvidenceWith(RealReport(IssuedDigest))}

TaskOptions ==
    {[NoOptions EXCEPT !.mode = Some("permissive")],
     [NoOptions EXCEPT !.validateSignatureChain = Some(FALSE)],
     AllExpected}

InitTasks ==
    /\ pc = [t \in Tasks |-> "idle"]
    /\ call = [t \in Tasks |-> NoCall]
    /\ out = [t \in Tasks |-> NoOut]
    /\ axiom = NoAxiom
    /\ native = "missing"
    /\ clock = Now0
    /\ drawn = 0
    /\ session = NoSession
    /\ lastVerdict = NoVerdict
    /\ manager = NoManager

\* a task calls verify: the call runs to the await, or to its end when the
\* signature check is switched off
VerifyCall(t) ==
    /\ pc[t] = "idle"
    /\ \E ev \in TaskEvidences, opts \in TaskOptions :
        /\ call' = [call EXCEPT ![t] = [op |-> "verify", evidence |-> ev,
                                        context |-> ContextX, options |-> opts]]
        /\ IF opts.validateSignatureChain # Some(FALSE)
           THEN /\ pc' = [pc EXCEPT ![t] = "awaiting"]
                /\ out' = out
           ELSE /\ pc' = [pc EXCEPT ![t] = "done"]
                /\ out' = [out EXCEPT ![t] = verify(ev, ContextX, opts, clock)]
    /\ UNCHANGED runtimeVars

\* the awaited promise is settled and the call runs to its end
VerifyResume(t) ==
    /\ pc[t] = "awaiting"
    /\ pc' = [pc EXCEPT ![t] = "done"]
    /\ out' = [out EXCEPT ![t] = verify(call[t].evidence, call[t].context,
                                        call[t].options, clock)]
    /\ UNCHANGED <<call, runtimeVars>>

\* the task is done with the verdict
VerifyReturn(t) ==
    /\ pc[t] = "done"
    /\ pc' = [pc EXCEPT ![t] = "idle"]
    /\ call' = [call EXCEPT ![t] = NoCall]
    /\ out' = [out EXCEPT ![t] = NoOut]
    /\ UNCHANGED runtimeVars

TickTasks ==
    /\ clock < Now0 + MaxTicks * TickMs
    /\ clock' = clock + TickMs
    /\ UNCHANGED <<pc, call, out, axiom, native, drawn, session, lastVerdict, manager>>

NextTasks ==
    \/ \E t \in Tasks : VerifyCall(t)
    \/ \E t \in Tasks : VerifyResume(t)
    \/ \E t \in Tasks : VerifyReturn(t)
    \/ TickTasks

SpecTasks == InitTasks /\ [][NextTasks]_vars


----------------------------------------------------------------------------
(* The SessionManager (runtime/session.ts).  Session identifiers are       *)
(* random and never compared with each other, so the map of sessions is    *)
(* kept up to a renaming of its keys: sessions[c] is the number of entries *)
(* created at time c, and held says whether the entry of the caller's      *)
(* session, the one the last createSession returned, is among them.        *)

MaxSessions == 100
SessionMaxAge == 300000

\* the clock when the manager is created, one millisecond later, and when
\* the sessions created first are just past the default maximum age and
\* those created next are exactly at it
ManagerClocks == {Now0, Now0 + 1, Now0 + SessionMaxAge + 1}

NewManager ==
    [constructed |-> TRUE, sessions |-> [c \in ManagerClocks |-> 0], held |-> FALSE]

RECURSIVE SizeOver(_, _)
SizeOver(sessions, times) ==
    IF times = {} THEN 0
    ELSE LET c == CHOOSE x \in times : TRUE IN
         sessions[c] + SizeOver(sessions, times \ {c})

getActiveCount(m) == SizeOver(m.sessions, DOMAIN m.sessions)

\* Session.isExpired of a session created at createdAt
isExpired(createdAt, maxAge, now) == now - createdAt > maxAge

\* the entries of the map other than the caller's, created at c
Others(m, s, c) ==
    m.sessions[c] - (IF m.held /\ s.createdAt = c THEN 1 ELSE 0)

cleanupExpired(m, s, maxAge, now) ==
    [m EXCEPT !.sessions = [c \in DOMAIN m.sessions |->
                               IF isExpired(c, maxAge, now) THEN 0 ELSE m.sessions[c]],
              !.held = m.held /\ ~isExpired(s.createdAt, maxAge, now)]

\* createSession without the cleanup of expired sessions
createSession_NoCleanup(m, s, config, now) ==
    IF getActiveCount(m) >= MaxSessions
    THEN [threw |-> TRUE, manager |-> m, session |-> s]
    ELSE [threw |-> FALSE,
          manager |-> [m EXCEPT !.sessions[now] = @ + 1, !.held = TRUE],
          session |-> SessionCreate(config, 1, now)]

createSession(m, s, config, now) ==
    LET cleaned == cleanupExpired(m, s, SessionMaxAge, now) IN
    IF getActiveCount(cleaned) >= MaxSessions
    THEN [threw |-> TRUE, manager |-> cleaned, session |-> s]
    ELSE [threw |-> FALSE,
          manager |-> [cleaned EXCEPT !.sessions[now] = @ + 1, !.held = TRUE],
          session |-> SessionCreate(config, 1, now)]

\* getSession(s.sessionId)
getSession(m, s) == IF m.held THEN Some(s) ELSE Undefined

\* removeSession of the caller's session ("own"), of another entry created
\* at target.at ("other"), or of an identifier that is not in the map
removeSession(m, s, target) ==
    CASE target.id = "own" ->
            IF m.held
            THEN [m EXCEPT !.sessions[s.createdAt] = @ - 1, !.held = FALSE]
            ELSE m
      [] target.id = "other" -> [m EXCEPT !.sessions[target.at] = @ - 1]
      [] OTHER -> m

clear(m) ==
    [m EXCEPT !.sessions = [c \in DOMAIN m.sessions |-> 0], !.held = FALSE]

InitManager ==
    /\ pc = "idle"
    /\ call = NoCall
    /\ out = NoOut
    /\ axiom = NoAxiom
    /\ native = "missing"
    /\ clock = Now0
    /\ drawn = 0
    /\ session = NoSession
    /\ lastVerdict = NoVerdict
    /\ manager = NewManager

managerFrame == <<pc, axiom, native, drawn, lastVerdict>>

ManagerCreateSession ==
    /\ call' = [op |-> "createSession", before |-> manager, session |-> session,
                now |-> clock]
    /\ \E r \in {createSession(manager, session, ConfigA, clock)} :
        /\ out' = [threw |-> r.threw]
        /\ manager' = r.manager
        /\ session' = r.session
    /\ UNCHANGED <<managerFrame, clock>>

ManagerRemoveSession ==
    /\ \E target \in {[id |-> "own"], [id |-> "unknown"]}
                     \cup {[id |-> "other", at |-> c] : c \in ManagerClocks} :
        /\ target.id = "other" => Others(manager, session, target.at) > 0
        /\ target.id = "own" => session.created
        /\ call' = [op |-> "removeSession", before |-> manager, session |-> session,
                    now |-> clock, target |-> target]
        /\ manager' = removeSession(manager, session, target)
    /\ out' = [threw |-> FALSE]
    /\ UNCHANGED <<managerFrame, clock, session>>

ManagerCleanupExpired ==
    /\ \E maxAge \in {SessionMaxAge, SessionMaxAge + 1} :
        /\ call' = [op |-> "cleanupExpired", before |-> manager, session |-> session,
                    now |-> clock, maxAge |-> maxAge]
        /\ manager' = cleanupExpired(manager, session, maxAge, clock)
    /\ out' = [threw |-> FALSE]
    /\ UNCHANGED <<managerFrame, clock, session>>

ManagerClear ==
    /\ call' = [op |-> "clear", before |-> manager, session |-> session,
                now |-> clock]
    /\ manager' = clear(manager)
    /\ out' = [threw |-> FALSE]
    /\ UNCHANGED <<managerFrame, clock, session>>

ManagerGetSession ==
    /\ session.created
    /\ call' = [op |-> "getSession", before |-> manager, session |-> session,
                now |-> clock]
    /\ out' = [threw |-> FALSE, value |-> getSession(manager, session)]
    /\ UNCHANGED <<managerFrame, clock, session, manager>>

ManagerTick ==
    /\ \E later \in ManagerClocks :
        /\ later > clock
        /\ clock' = later
    /\ call' = [op |-> "tick", before |-> manager, session |-> session,
                now |-> clock]
    /\ out' = NoOut
    /\ UNCHANGED <<managerFrame, session, manager>>

NextManager ==
    \/ ManagerCreateSession
    \/ ManagerRemoveSession
    \/ ManagerCleanupExpired
    \/ ManagerClear
    \/ ManagerGetSession
    \/ ManagerTick

SpecManager == InitManager /\ [][NextManager]_vars


----------------------------------------------------------------------------
(* Properties of the verifier *)

Returned_(op) == pc = "returned" /\ call.op = op
HasError(v, msg) == \E i \in 1..Len(v.errors) : v.errors[i].msg = msg
HasWarning(v, text) == Has(v.warnings, text)
ModeOf(options) == IF IsDefined(options.mode) THEN options.mode[1] ELSE "strict"
SimulatorWarning == "Simulator report detected - no real platform authentication"

\* (a) of C1: the recomputed output hash equals evidence.outputHash
OutputHashMatches(evidence, context) == hashContext(context) = evidence.outputHash

\* (b) of C1: the first 32 bytes of the parsed reportData equal
\* SHA256(sessionId || configHash || outputHash || timestamp_be64)
DigestMatches(evidence) ==
    LET parsed == parseAttestationReport(evidence.report) IN
    /\ parsed.ok
    /\ ~U64Throws(evidence.timestamp)
    /\ TakeBytes(parsed.value.reportData, 32)
         = Sha256(FromHex(evidence.sessionId) \o FromHex(evidence.configHash)
                  \o FromHex(evidence.outputHash) \o U64BE(evidence.timestamp))

\* the output hash of each context verify is called with
HashOfContext == [x \in VerifyContexts |-> hashContext(x)]

\* C1: verify sets sessionBinding = TRUE exactly when the recomputed output
\* hash equals evidence.outputHash and the first 32 bytes of the report's
\* reportData equal the binding digest of the evidence fields; otherwise
\* sessionBinding is FALSE, an output-binding error is recorded and valid is
\* FALSE.  Evidence issued for a context X never binds to a different
\* context X', in either mode.
C1_SessionBindingExact ==
    Returned_("verify") =>
        LET ok == OutputHashMatches(call.evidence, call.context)
                    /\ DigestMatches(call.evidence)
        IN  /\ ~out.threw
            /\ out.claims.sessionBinding = ok
            /\ ~ok => /\ HasError(out, "Output binding verification failed")
                      /\ ~out.valid
            /\ \A x \in VerifyContexts :
                 (call.evidence.outputHash = HashOfContext[x] /\ call.context # x)
                    => ~out.claims.sessionBinding /\ ~out.valid

C1_Witness ==
    /\ Returned_("verify")
    /\ out.claims.sessionBinding
    /\ call.context = ContextX
    /\ ModeOf(call.options) = "strict"

\* C2: in every verdict verify returns, valid is TRUE exactly when all six
\* claims are TRUE and errors is empty.
C2_ValidIffAllClaims ==
    Returned_("verify") =>
        (out.valid <=> (/\ out.claims.codeIdentity /\ out.claims.platformAuth
                        /\ out.claims.sessionBinding /\ out.claims.freshness
                        /\ out.claims.reportStructure /\ out.claims.configBinding
                        /\ Len(out.errors) = 0))

C2_Witness == Returned_("verify") /\ out.valid /\ out.warnings # <<>>

\* C3: every verdict handed to a caller by verify or verifyEvidenceOnly
\* satisfies: valid = TRUE implies all six claims are TRUE and errors is empty.
C3_ValidImpliesClaims ==
    (pc = "returned" /\ call.op \in {"verify", "verifyEvidenceOnly"}) =>
        (out.valid => AllClaims(out.claims) /\ out.errors = <<>>)

\* C5: for every evidence whose report begins with "FAKE" and every value of
\* the other options, strict mode yields platformAuth = FALSE with the
\* simulator warning and valid = FALSE; permissive mode yields platformAuth =
\* TRUE with the same warning.
C5_SimulatorNeverStrict ==
    (Returned_("verify") /\ isSimulatorReport(call.evidence.report)) =>
        /\ HasWarning(out, SimulatorWarning)
        /\ IF ModeOf(call.options) = "strict"
           THEN ~out.claims.platformAuth /\ ~out.valid
           ELSE out.claims.platformAuth

\* the verdicts of verify for the arguments of the last call in either mode
InMode(mode) ==
    verify(call.evidence, call.context, [call.options EXCEPT !.mode = Some(mode)],
           call.now)

C8_DigestBindsFields ==
    (Returned_("verify") /\ out.claims.sessionBinding) =>
        \A e2 \in Evidences :
            (/\ e2.report = call.evidence.report
             /\ \/ e2.sessionId # call.evidence.sessionId
                \/ e2.configHash # call.evidence.configHash
                \/ e2.outputHash # call.evidence.outputHash
                \/ e2.timestamp # call.evidence.timestamp)
            => \A ctx \in VerifyContexts : ~verifyOutputBinding(e2, ctx).valid

\* C10: verify is total: every call returns a verdict and never throws, and
\* every claim that is FALSE comes with an entry in errors or warnings.
C10_VerifyTotal ==
    pc = "returned" =>
        /\ ~out.threw
        /\ call.op \in {"verify", "verifyEvidenceOnly"} =>
            /\ ~out.claims.reportStructure => HasError(out, "Report structure invalid")
            /\ ~out.claims.codeIdentity =>
                  \/ HasError(out, "Measurement mismatch")
                  \/ HasError(out, "Expected measurement not provided for verification")
            /\ ~out.claims.platformAuth =>
                  \/ HasError(out, "Platform authentication failed")
                  \/ HasWarning(out, SimulatorWarning)
            /\ ~out.claims.sessionBinding =>
                  \/ HasError(out, "Output binding verification failed")
                  \/ HasWarning(out, "Session binding not verified (no transformed context provided)")
            /\ ~out.claims.configBinding => HasError(out, "Config hash mismatch")
            /\ ~out.claims.freshness =>
                  \/ HasError(out, "Attestation too old")
                  \/ HasError(out, "Attestation timestamp is in the future")

\* a fractional timestamp reaches BigInt(), whose exception becomes an entry
C10_Witness ==
    /\ Returned_("verify")
    /\ call.evidence.timestamp.half
    /\ ~out.threw
    /\ \E i \in 1..Len(out.errors) :
          out.errors[i] = Err("Output binding verification failed", "RangeError")

\* C11: structural failure fails closed: whenever verify returns
\* reportStructure = FALSE, the same verdict has codeIdentity = FALSE and
\* sessionBinding = FALSE, for every evidence.measurement, expectedMeasurement
\* and mode.
C11_StructuralFailureFailsClosed ==
    (Returned_("verify") /\ ~out.claims.reportStructure) =>
        /\ ~out.claims.codeIdentity
        /\ ~out.claims.sessionBinding

\* C12: whenever evidence.report parses, the measurement of the verdict is the
\* measurement parseAttestationReport extracts from evidence.report.
C12_MeasurementFromReport ==
    (Returned_("verify") /\ validateReportStructure(call.evidence.report)) =>
        out.measurement = extractMeasurement(call.evidence.report).value

\* the age of the evidence of the last call in half milliseconds
Age2 ==
    2 * (call.now - call.evidence.timestamp.ms)
        - (IF call.evidence.timestamp.half THEN 1 ELSE 0)
MaxAge2 ==
    2 * (IF IsDefined(call.options.maxAge) THEN call.options.maxAge[1] ELSE DefaultMaxAge)

\* C13: with age = now - evidence.timestamp and maxAge defaulting to 300000,
\* verify sets freshness = TRUE exactly when 0 <= age <= maxAge; when age < 0
\* it records the "in the future" error and when age > maxAge the "too old"
\* error, and in both cases freshness and valid are FALSE, in either mode.
C13_FreshnessWindow ==
    Returned_("verify") =>
        /\ out.claims.freshness <=> (0 <= Age2 /\ Age2 <= MaxAge2)
        /\ Age2 < 0 =>
              /\ HasError(out, "Attestation timestamp is in the future")
              /\ ~HasError(out, "Attestation too old")
              /\ ~out.claims.freshness /\ ~out.valid
        /\ Age2 > MaxAge2 =>
              /\ HasError(out, "Attestation too old")
              /\ ~HasError(out, "Attestation timestamp is in the future")
              /\ ~out.claims.freshness /\ ~out.valid
        /\ (0 <= Age2 /\ Age2 <= MaxAge2) =>
              /\ ~HasError(out, "Attestation too old")
              /\ ~HasError(out, "Attestation timestamp is in the future")

\* an age of exactly the default maximum is fresh, in permissive mode
C13_Witness ==
    /\ Returned_("verify")
    /\ ~IsDefined(call.options.maxAge)
    /\ Age2 = 2 * DefaultMaxAge
    /\ out.claims.freshness
    /\ ~HasError(out, "Attestation too old")
    /\ ModeOf(call.options) = "permissive"

\* the statement of C14 with "supplied" meaning present (empty or not)
CodeIdentityRule(supplied) ==
    Returned_("verify") =>
        IF supplied
        THEN /\ out.claims.codeIdentity
                  <=> (call.evidence.measurement = call.options.expectedMeasurement[1])
             /\ ~out.claims.codeIdentity => HasError(out, "Measurement mismatch")
        ELSE IF ModeOf(call.options) = "strict"
        THEN /\ ~out.claims.codeIdentity
             /\ HasError(out, "Expected measurement not provided for verification")
        ELSE /\ out.claims.codeIdentity
             /\ HasWarning(out, "Code identity not verified (no expected measurement)")
             /\ ~HasError(out, "Measurement mismatch")
             /\ ~HasError(out, "Expected measurement not provided for verification")

ConfigBindingRule(supplied) ==
    Returned_("verify") =>
        IF supplied
        THEN /\ out.claims.configBinding
                  <=> (call.evidence.configHash = call.options.expectedConfigHash[1])
             /\ ~out.claims.configBinding =>
                    HasError(out, "Config hash mismatch") /\ ~out.valid
        ELSE out.claims.configBinding /\ ~HasError(out, "Config hash mismatch")

FailingChecks ==
    {m \in {"Report structure invalid", "Measurement mismatch",
            "Platform authentication failed", "Output binding verification failed",
            "Config hash mismatch", "Freshness"} :
        \/ m = "Report structure invalid" /\ ~validateReportStructure(call.evidence.report)
        \/ m = "Measurement mismatch"
              /\ Truthy(call.options.expectedMeasurement)
              /\ call.evidence.measurement # call.options.expectedMeasurement[1]
        \/ m = "Platform authentication failed"
              /\ ~out.claims.platformAuth
              /\ ~isSimulatorReport(call.evidence.report)
        \/ m = "Output binding verification failed"
              /\ ~(OutputHashMatches(call.evidence, call.context)
                    /\ DigestMatches(call.evidence))
        \/ m = "Config hash mismatch"
              /\ Truthy(call.options.expectedConfigHash)
              /\ call.evidence.configHash # call.options.expectedConfigHash[1]
        \/ m = "Freshness" /\ ~(0 <= Age2 /\ Age2 <= MaxAge2)}

\* C16: no short-circuiting: the verdict carries one error entry for each
\* failing check among reportStructure, codeIdentity mismatch, non-simulator
\* platformAuth, sessionBinding, configBinding mismatch and freshness, so k
\* simultaneous failures give at least k error entries and valid = FALSE.
C16_NoShortCircuit ==
    Returned_("verify") =>
        LET failing == FailingChecks IN
        /\ \A m \in failing :
              IF m = "Freshness"
              THEN \/ HasError(out, "Attestation too old")
                   \/ HasError(out, "Attestation timestamp is in the future")
              ELSE HasError(out, m)
        /\ Len(out.errors) >= Cardinality(failing)
        /\ failing # {} => ~out.valid

\* all six checks fail at once and each one is reported
C16_Witness ==
    /\ Returned_("verify")
    /\ Cardinality(FailingChecks) = 6
    /\ Len(out.errors) = 6


\* C26. Every rejected verdict explains itself: when verify returns
\* valid = false, errors is not empty.
C26_RejectionHasError ==
    Returned_("verify") => (~out.valid => Len(out.errors) > 0)

\* C27. Strict mode is at least as strong as permissive mode: for the same
\* evidence, context, clock value and remaining options, a verdict that is
\* valid in strict mode is valid in permissive mode, and every claim that is
\* true in the strict verdict is true in the permissive verdict.
C27_StrictImpliesPermissive ==
    (Returned_("verify") /\ ModeOf(call.options) = "strict") =>
        LET permissive == InMode("permissive") IN
        /\ out.valid => permissive.valid
        /\ \A name \in DOMAIN out.claims :
              out.claims[name] => permissive.claims[name]

\* a verdict that is valid in strict mode: a report of the real layout that
\* passes every check
C27_Witness ==
    /\ Returned_("verify")
    /\ ModeOf(call.options) = "strict"
    /\ ~isSimulatorReport(call.evidence.report)
    /\ out.valid
    /\ InMode("permissive").valid


----------------------------------------------------------------------------
(* Properties of the attested execution path *)

ReasonReturned == pc \in {"returned", "verified"} /\ call.op = "reason"

\* C4: every accepted reason() input (model absent or supplied) under the
\* attested tier with the simulator runner yields evidence that verifies
\* against the returned transformedContext with the hinted measurement in
\* permissive mode: valid and sessionBinding are TRUE, and evidence.outputHash
\* equals hash(returned transformedContext) and the session's outputHash.
C4_EndToEndRoundTrip ==
    (/\ pc = "verified"
     /\ call.op = "reason"
     /\ isSimulatorReport(out.attestationEvidence[1].report)
     /\ clock - session.createdAt <= DefaultMaxAge)
    => /\ ~lastVerdict.threw
       /\ lastVerdict.valid
       /\ lastVerdict.claims.sessionBinding
       /\ out.attestationEvidence[1].outputHash = hashContext(out.transformedContext)
       /\ Some(out.attestationEvidence[1].outputHash) = session.outputHash

\* C7: with enclave "required" and the native runner unavailable, an
\* attested-tier reason() call throws a ConfigurationError and returns no
\* transformed context and no evidence.
C7_RequiredNeverFallsBack ==
    (/\ ReasonReturned
     /\ call.config.securityTier = "attested"
     /\ call.config.enclave = "required"
     /\ call.native # "up")
    => out.threw /\ out.error = "ConfigurationError"

\* C9: two configurations have the same configHash only if they agree on
\* securityTier, enclave, policyVersion and platform (its presence, its type
\* and its verificationMode).
C9_ConfigHashFingerprint ==
    (pc = "returned" /\ call.op = "hashConfig") =>
        (out.a = out.b =>
            /\ call.a.securityTier = call.b.securityTier
            /\ call.a.enclave = call.b.enclave
            /\ call.a.policyVersion = call.b.policyVersion
            /\ call.a.platform = call.b.platform)


----------------------------------------------------------------------------
(* Properties of the Session *)

Mutators == {"setOutputHash", "setEnclaveUsed", "finalize"}

\* C17: finalization is permanent: once a session is finalized, every later
\* call of setOutputHash, setEnclaveUsed or finalize on it throws, and no
\* operation on it changes outputHash, enclaveUsed, platform or the
\* finalized flag; isFinalized() never goes from TRUE back to FALSE.
C17_FinalizePermanent ==
    [][(/\ session.created
        /\ session.finalized
        /\ session'.created
        /\ session'.sessionId = session.sessionId)
       => /\ session'.finalized
          /\ isFinalized(session')
          /\ session'.outputHash = session.outputHash
          /\ session'.enclaveUsed = session.enclaveUsed
          /\ session'.platform = session.platform
          /\ call'.op \in Mutators => out'.threw
          /\ call'.op = "isFinalized" => out'.value]_vars

\* a well-formed setOutputHash on a finalized session that had no output
\* hash has thrown
C17_Witness ==
    /\ call.op = "setOutputHash"
    /\ call.before.finalized
    /\ ~IsDefined(call.before.outputHash)
    /\ IsHex64(call.hash)
    /\ out.threw
    /\ session = call.before

\* C18: outputHash is set exactly once: after one successful setOutputHash
\* before finalize(), a second setOutputHash on the same session fails and the
\* stored outputHash keeps its first value.
C18_OutputHashSetOnce ==
    (/\ call.op = "setOutputHash"
     /\ IsDefined(call.before.outputHash)
     /\ ~call.before.finalized)
    => /\ out.threw
       /\ session.outputHash = call.before.outputHash

\* a string of exactly n lower-case hexadecimal characters
IsLowerHex(str, n) ==
    /\ HexLen(str) = n
    /\ \A k \in 1..Len(str) :
          /\ "hex" \in DOMAIN str[k] => ~str[k].up
          /\ "ch" \in DOMAIN str[k] => str[k].ch = LowerDigits[HexVal(str[k].ch) + 1]

\* C19: in every reachable state getOutputHash() is undefined or a string of
\* exactly 64 lower-case hexadecimal characters, configHash is 64 and
\* sessionId 32 lower-case hexadecimal characters; setOutputHash called with
\* any other string throws and leaves the stored outputHash unchanged.
C19_HashFormat ==
    session.created =>
        /\ IsDefined(getOutputHash(session)) => IsLowerHex(getOutputHash(session)[1], 64)
        /\ IsLowerHex(session.configHash, 64)
        /\ IsLowerHex(session.sessionId, 32)
        /\ (call.op = "setOutputHash" /\ ~IsLowerHex(call.hash, 64)) =>
              /\ out.threw
              /\ session.outputHash = call.before.outputHash

C21_ReportDataNeedsOutputHash ==
    call.op = "createReportData" =>
        /\ session = call.before
        /\ IF IsDefined(session.outputHash)
           THEN /\ ~out.threw
                /\ BytesLen(out.value) = 32
                /\ BytesLen(FromHex(session.sessionId)) = 16
                /\ BytesLen(FromHex(session.configHash)) = 32
                /\ BytesLen(FromHex(session.outputHash[1])) = 32
                /\ out.value =
                      Sha256(FromHex(session.sessionId) \o FromHex(session.configHash)
                             \o FromHex(session.outputHash[1])
                             \o U64BE(IntMs(session.createdAt)))
           ELSE out.threw

\* the digest of a finalized session
C21_Witness ==
    /\ call.op = "createReportData"
    /\ session.finalized
    /\ IsDefined(session.outputHash)
    /\ ~out.threw


\* C29. The three implementations of the binding digest agree: for a
\* session with outputHash set, createReportData() equals the digest the
\* verifier recomputes from the session's sessionId, configHash, outputHash
\* and createdAt, and equals bytes 8..39 of the simulator report generated
\* for the same values; and for a report of either layout
\* verifyBinding(extractReportData(report), outputHash) returns true exactly
\* when the digest comparison of verifyOutputBinding passes for the same
\* report and values.
C29_BindingDigestsAgree ==
    /\ (call.op = "createReportData" /\ ~out.threw) =>
          LET s == call.before IN
          /\ out.value = bindingDigest(s.sessionId, s.configHash, s.outputHash[1],
                                       IntMs(s.createdAt))
          /\ out.value = generateFakeAttestationReport(
                             FromHex(s.sessionId), FromHex(s.configHash),
                             FromHex(s.outputHash[1]), IntMs(s.createdAt)).d8
    /\ call.op = "verifyBindingOfReport" =>
          LET s == call.before IN
          (~out.threw /\ out.value) <=>
              DigestMatches([report |-> call.report, sessionId |-> s.sessionId,
                             configHash |-> s.configHash,
                             outputHash |-> call.outputHash,
                             timestamp |-> IntMs(s.createdAt)])


----------------------------------------------------------------------------
(* Properties of the canonical serializer *)

UniqueIds(context) ==
    \A i, j \in 1..Len(context.entities) :
        i # j => context.entities[i].syntheticId # context.entities[j].syntheticId

\* C22: for every context with unique syntheticIds, hash and canonicalize
\* return the same value for every permutation of the entities, every
\* permutation of the relations and every insertion order of attribute keys,
\* so verifyEquivalence is TRUE for any two such reorderings; canonicalize
\* does not modify its argument.
C22_CanonicalDeterminism ==
    /\ (/\ pc = "returned" /\ call.op = "verifyEquivalence"
        /\ UniqueIds(call.a)
        /\ call.b \in Reorderings(call.a))
       => /\ out.value
          /\ canonicalize(call.a) = canonicalize(call.b)
          /\ hashContext(call.a) = hashContext(call.b)
    /\ (pc = "returned" /\ call.op = "canonicalize") => out.argument = call.context

\* the strings written in a canonical text, keys of attributes included
TextStrings(text) ==
    {text.task} \cup {text.model[j] : j \in 1..Len(text.model)}
    \cup UNION {{text.entities[j].role, text.entities[j].syntheticId}
                  \cup {text.entities[j].attributes[a].k :
                          a \in 1..Len(text.entities[j].attributes)}
                  \cup {text.entities[j].attributes[a].v.s :
                          a \in {x \in 1..Len(text.entities[j].attributes) :
                                   "s" \in DOMAIN text.entities[j].attributes[x].v}} :
                j \in 1..Len(text.entities)}
    \cup UNION {{text.relations[j].from, text.relations[j].to, text.relations[j].type} :
                j \in 1..Len(text.relations)}

\* the strings drawn that contain a space, and a tab or a line feed
HasSpace(str) == str \in {"organization ", "summarize payment"}
HasTabOrNewline(str) == str = "col1\tcol2\nrow2"

\* the keys of every attributes object are written in ascending code unit
\* order (the other objects have the fixed keys entities, model, relations,
\* task; attributes, role, syntheticId; from, to, type)
KeysSorted(text) ==
    \A j \in 1..Len(text.entities) :
        \A a \in 1..(Len(text.entities[j].attributes) - 1) :
            CodeUnitRank(text.entities[j].attributes[a].k)
                < CodeUnitRank(text.entities[j].attributes[a + 1].k)

\* the same, array index keys first in ascending numeric order
KeysSortedAfterIndexKeys(text) ==
    \A j \in 1..Len(text.entities) :
        \A a \in 1..(Len(text.entities[j].attributes) - 1) :
            LET k1 == text.entities[j].attributes[a].k
                k2 == text.entities[j].attributes[a + 1].k
            IN  IF IndexValue(k1) >= 0
                THEN IndexValue(k2) < 0 \/ IndexValue(k1) < IndexValue(k2)
                ELSE IndexValue(k2) < 0 /\ CodeUnitRank(k1) < CodeUnitRank(k2)

----------------------------------------------------------------------------
(* Properties of the report decoder *)

\* C24. parseAttestationReport throws exactly for the buffers shorter than
\* the 1184-byte layout (the empty buffer and a short buffer that starts
\* with "FAKE" among them); validateReportStructure is true exactly when
\* parseAttestationReport does not throw; the simulator layout, whose
\* reportData is bytes 8..39, is selected exactly when isSimulatorReport is
\* true, and the real layout, whose reportData is bytes 640..703, otherwise.
C24_ReportDecoding ==
    /\ Returned_("parseAttestationReport") =>
        /\ out.threw <=> call.report.len < ReportSize
        /\ out.threw =>
            out.error = IF isSimulatorReport(call.report)
                        THEN "Invalid simulator report: too small"
                        ELSE "Invalid SEV-SNP report: incorrect size"
        /\ ~out.threw =>
            IF isSimulatorReport(call.report)
            THEN /\ out.value.layout = "simulator"
                 /\ out.value.reportData = call.report.d8
                 /\ BytesLen(out.value.reportData) = 32
            ELSE /\ out.value.layout = "sev-snp"
                 /\ out.value.reportData = call.report.d640
                 /\ BytesLen(out.value.reportData) = 64
    /\ Returned_("validateReportStructure") =>
        /\ ~out.threw
        /\ out.value <=> parseAttestationReport(call.report).ok
        /\ out.value <=> call.report.len >= ReportSize
    /\ Returned_("isSimulatorReport") =>
        /\ ~out.threw
        /\ out.value <=> (call.report.len >= 4 /\ call.report.head = "FAKE")
    /\ Returned_("extractReportData") =>
        /\ out.threw <=> ~validateReportStructure(call.report)
        /\ ~out.threw =>
            out.value = IF isSimulatorReport(call.report)
                        THEN call.report.d8 ELSE call.report.d640

\* a buffer of 1183 bytes that starts with "FAKE" is rejected as a
\* simulator report
C24_Witness ==
    /\ Returned_("parseAttestationReport")
    /\ call.report.len = ReportSize - 1
    /\ call.report.head = "FAKE"
    /\ out.threw
    /\ out.error = "Invalid simulator report: too small"

\* C28. With validateSignatureChain not set to false, for a report that
\* does not begin with "FAKE", platformAuth is true exactly when the report
\* parses and its signature field has at least one byte, and a report that
\* does not parse gives platformAuth = false with a 'Platform authentication
\* failed' error; with validateSignatureChain = false platformAuth is true
\* for every report.
C28_PlatformAuthOfRealReports ==
    Returned_("verify") =>
        LET report == call.evidence.report
            parsed == parseAttestationReport(report)
        IN  IF call.options.validateSignatureChain = Some(FALSE)
            THEN out.claims.platformAuth
            ELSE report.head # "FAKE" =>
                    /\ out.claims.platformAuth <=>
                          (parsed.ok /\ BytesLen(parsed.value.signature) > 0)
                    /\ ~parsed.ok =>
                          /\ ~out.claims.platformAuth
                          /\ HasError(out, "Platform authentication failed")

\* a report of the real layout whose 64 signature bytes are all zero is
\* authenticated
C28_Witness ==
    /\ Returned_("verify")
    /\ call.options.validateSignatureChain # Some(FALSE)
    /\ call.evidence.report.head = "v2"
    /\ call.evidence.report.sig = Zeros(64)
    /\ out.claims.platformAuth

----------------------------------------------------------------------------
(* Properties of concurrent verify calls *)

BothDone == \A t \in Tasks : pc[t] = "done"
IsFreshnessError(e) ==
    e.msg \in {"Attestation too old", "Attestation timestamp is in the future"}
IsOtherError(e) == ~IsFreshnessError(e)

----------------------------------------------------------------------------
(* Properties of the SessionManager *)

\* the entries of the map before the call that are not older than maxAge
Remaining(maxAge) ==
    [c \in DOMAIN call.before.sessions |->
        IF call.now - c > maxAge THEN 0 ELSE call.before.sessions[c]]
\* the caller's entry is in the map before the call and not older than maxAge
OwnRemains(maxAge) ==
    call.before.held /\ ~(call.now - call.session.createdAt > maxAge)

\* C30. After any sequence of createSession, removeSession, cleanupExpired
\* and clear, getActiveCount() is at most 100.  createSession first removes
\* every session older than 5 minutes; then, if 100 sessions remain, it
\* throws and registers nothing, leaving the remaining sessions as they
\* are; otherwise it registers the new session, and getSession of its
\* identifier returns it until it is removed, expired or cleared.
C30_ManagerCapacity ==
    /\ getActiveCount(manager) <= MaxSessions
    /\ call.op = "createSession" =>
        LET remaining == Remaining(SessionMaxAge)
            count == SizeOver(remaining, DOMAIN remaining)
        IN  /\ out.threw <=> count = MaxSessions
            /\ out.threw =>
                /\ manager.sessions = remaining
                /\ manager.held = OwnRemains(SessionMaxAge)
                /\ session = call.session
            /\ ~out.threw =>
                /\ manager.sessions = [remaining EXCEPT ![call.now] = @ + 1]
                /\ getActiveCount(manager) = count + 1
                /\ session.createdAt = call.now
                /\ getSession(manager, session) = Some(session)
    /\ call.op = "cleanupExpired" =>
        /\ manager.sessions = Remaining(call.maxAge)
        /\ manager.held = OwnRemains(call.maxAge)
    /\ call.op = "removeSession" =>
        /\ getActiveCount(manager) =
              getActiveCount(call.before)
                - (IF call.target.id = "other"
                      \/ (call.target.id = "own" /\ call.before.held)
                   THEN 1 ELSE 0)
        /\ manager.held = (call.before.held /\ call.target.id # "own")
    /\ call.op = "clear" =>
        getActiveCount(manager) = 0 /\ ~manager.held
    /\ call.op \in {"getSession", "tick"} =>
        manager = call.before
    /\ call.op = "getSession" =>
        out.value = IF manager.held THEN Some(session) ELSE Undefined

\* the manager holds 100 sessions, some of them exactly 5 minutes old and
\* none older, and createSession throws
C30_Witness ==
    /\ call.op = "createSession"
    /\ out.threw
    /\ getActiveCount(manager) = MaxSessions
    /\ \E c \in DOMAIN call.before.sessions :
          call.before.sessions[c] > 0 /\ call.now - c = SessionMaxAge

====
